---- MODULE Spec2Model ----
(***************************************************************************)
(* Playback/progress engine of the offline audiobook reader                *)
(* (services/audioPlayer.ts, class AudioPlayer), together with the part of *)
(* the native MediaControl plugin and of the app glue that the engine's    *)
(* behaviour depends on.                                                   *)
(*                                                                         *)
(* Units.  Positions and durations are whole seconds.  The wall clock      *)
(* `now` counts units of 0.05 minute (3 s), so the 0.1 minute granularity  *)
(* threshold is 2 units and the 300 minute sanity cap is 6000 units.       *)
(* A day's stored minutes are counted in tenths of a minute, which is the  *)
(* precision Math.round(x * 10) / 10 keeps.  Speeds are multiplied by 10.  *)
(***************************************************************************)
EXTENDS Integers, Sequences, FiniteSets, TLC

\* ------------------------------------------------------------------ bounds
ChapDur == 3          \* length of every chapter, seconds
MaxTasks == 2         \* awaits on storage in flight at once
MaxBridge == 2        \* native commands posted and not yet executed
MaxInbox == 2         \* native replies/events posted and not yet delivered
MaxStatClock == 7     \* clock units past the start or the long sleep (SpecStats)
MaxSleepClock == 60   \* clock units past the start (SpecSleep)
MaxUrls == 2          \* object URLs left unreleased, after which no load is called (SpecUrls)
MaxPolls == 2         \* calls held by ensureService at once (SpecBridge)

\* ------------------------------------------------------- program constants
DefaultSpeed == 10        \* _speed = 1.0
MinElapsed == 2           \* elapsed > 0.1 minute
MaxElapsed == 6000        \* elapsed > 300 minutes is ignored
UnitsPerMinute == 20      \* minutes * 60 * 1000 ms, in clock units

NoId == "none"
NoTime == -1              \* null sleepTimerEnd
NaNDur == -1              \* audio.duration before metadata is known
NoCallback == 0           \* _onChapterEnd = null; 1, 2: the functions registered
TimeUnset == -1           \* p.getDuration() / 1000.0 before the player has prepared

Books == {"b1", "b2", "b3"}
Speeds == {10, 15}
IntroVals == {0, 2}
OutroVals == {0, 2}
SeekTargets == -1 .. (ChapDur + 1)
SeekDeltas == {-2, 2}
SleepMinutes == {1, 2}
StatTicks == {1, 3}
SleepTicks == {10, 20}

\* The chapter records of a book as getChaptersByBook returns them after the
\* sort by `order`; `path` says whether the record has an audioPath, `blob`
\* whether an audio blob is stored for it.
VARIABLE reordered    \* reorderChapters has swapped the `order` of b1's chapters

DbChapters(b) ==
  IF b = "b1"
    THEN IF reordered
           THEN << [id |-> "a2", path |-> TRUE, blob |-> FALSE],
                   [id |-> "a1", path |-> TRUE, blob |-> FALSE] >>
           ELSE << [id |-> "a1", path |-> TRUE, blob |-> FALSE],
                   [id |-> "a2", path |-> TRUE, blob |-> FALSE] >>
  ELSE IF b = "b2"
    THEN << [id |-> "x1", path |-> FALSE, blob |-> TRUE],
            [id |-> "x2", path |-> TRUE, blob |-> FALSE] >>
  ELSE IF b = "b3"
    THEN << [id |-> "n1", path |-> FALSE, blob |-> FALSE] >>
    ELSE << >>

AllIds(b) == [i \in 1 .. Len(DbChapters(b)) |-> DbChapters(b)[i].id]

ChapterIdsOf(b) == {DbChapters(b)[i].id : i \in 1 .. Len(DbChapters(b))}

ChapterRec(c) ==
  CHOOSE r \in UNION {{DbChapters(b)[i] : i \in 1 .. Len(DbChapters(b))} : b \in Books} :
    r.id = c

RECURSIVE PathsOf(_)
PathsOf(chs) ==
  IF chs = << >> THEN << >>
  ELSE IF Head(chs).path THEN << Head(chs).id >> \o PathsOf(Tail(chs))
  ELSE PathsOf(Tail(chs))

\* ids.indexOf(x): 0-based, -1 when absent
IndexOf(seq, x) ==
  IF \E i \in 1 .. Len(seq) : seq[i] = x
    THEN (CHOOSE i \in 1 .. Len(seq) : seq[i] = x /\ \A j \in 1 .. (i - 1) : seq[j] # x) - 1
    ELSE -1

Max(a, b) == IF a >= b THEN a ELSE b
Min(a, b) == IF a <= b THEN a ELSE b

\* ---------------------------------------------------------------- state
VARIABLES
  isNative,            \* Capacitor.isNativePlatform(), fixed at start
  bookId, chapterId, chapterIndex, totalChapters, chapterIds,
  speed, sleepTimerEnd, skipSettings, skipOutroTriggered, onChapterEnd,
  nativePosition, nativeDuration, nativePlaying,
  lastStatUpdate, sleepTimeout,
  audio,               \* the HTMLAudioElement: src, cur, dur, paused, rate
  objectUrl,           \* the handle the engine holds, 0 when none
  urls,                \* object URLs created and not revoked
  progress,            \* the progress store, one record per book
  stat,                \* today's StatRecord.minutes, in tenths
  now,                 \* Date.now()
  timers,              \* pending window.setTimeout callbacks
  tasks,               \* continuations awaiting storage
  bridge,              \* commands posted to the native plugin, FIFO
  inbox,               \* replies and events posted by the plugin, FIFO
  svcAlive, bPlaying, bDur, bIds,      \* the playback service and its player
  out,                 \* what the last step did (observer calls, persists, ...)
  hist,                \* history of the commands since the last session reset
  outroCalls,          \* outro-skip callback invocations since the last loadChapter
  listeners,           \* per observer: whether it is in the `listeners` Set, and
                       \* whether the function subscribe() returned was called
  lastReload,          \* what _reloadNativePlaylist last submitted, while nothing
                       \* but _reloadNativePlaylist has run since
  polls                \* the calls ensureService holds: the call and the number
                       \* of times its Runnable has found no service

engineVars ==
  << bookId, chapterId, chapterIndex, totalChapters, chapterIds, speed,
     sleepTimerEnd, skipSettings, skipOutroTriggered, onChapterEnd,
     nativePosition, nativeDuration, nativePlaying, lastStatUpdate,
     sleepTimeout >>

vars ==
  << isNative, bookId, chapterId, chapterIndex, totalChapters, chapterIds,
     speed, sleepTimerEnd, skipSettings, skipOutroTriggered, onChapterEnd,
     nativePosition, nativeDuration, nativePlaying, lastStatUpdate,
     sleepTimeout, audio, objectUrl, urls, progress, stat, now, timers,
     tasks, bridge, inbox, svcAlive, bPlaying, bDur, bIds, out, hist,
     outroCalls, reordered, listeners, lastReload, polls >>

\* the functions the app passes to subscribe()
Observers == {1, 2}

\* the fields a load is said to leave alone when it is abandoned
NoIdentity ==
  [bookId |-> NoId, chapterId |-> NoId, chapterIndex |-> 0, totalChapters |-> 0,
   chapterIds |-> << >>, position |-> 0, duration |-> 0, outroTriggered |-> FALSE]

\* a suspended async method: where it stands (kind, pc), its arguments and
\* locals, and (pre) the engine's identity fields when it was called, when
\* the call is one that is being followed (LoadChapterFollowed)
NoTask ==
  [kind |-> "none", pc |-> "", book |-> NoId, chap |-> NoId, pos |-> 0,
   auto |-> FALSE, ret |-> "none", val |-> 0, pre |-> NoIdentity]

NoCmdArgs == [ids |-> << >>, index |-> 0, pos |-> 0, speed |-> 0]

NoInfo ==
  [state |-> "none", bookId |-> NoId, chapterId |-> NoId, chapterIndex |-> 0,
   totalChapters |-> 0, currentTime |-> 0, duration |-> 0, speed |-> 0,
   sleepTimerEnd |-> NoTime,
   skipSettings |-> [enabled |-> FALSE, introSeconds |-> 0, outroSeconds |-> 0]]

NoProgress == [chapterId |-> NoId, position |-> 0, speed |-> 0]

\* what a run of playBook found and asked for: the book, the chapter the
\* caller named, the progress record read, the number of chapter records,
\* whether loadChapter was called and with which chapter and start position,
\* the position the load will start at and the engine's speed after the call
NoPb ==
  [book |-> NoId, explicit |-> NoId, saved |-> NoProgress, n |-> 0,
   called |-> FALSE, chap |-> NoId, req |-> 0, pos |-> 0, speed |-> 0]

NoLoad ==
  [by |-> "none", ids |-> << >>, index |-> 0, pos |-> 0, speed |-> 0, req |-> 0,
   cur |-> 0]

\* The record a step leaves in `out`.
\*   notify  - observers were called;  info - the last snapshot they were given
\*   persist - a progress record was written
\*   cbs     - chapter-end callback invocations;  outro - those made by outro-skip
\*   hb      - heartbeat outcome: "none", "small", "jump", "rmw"
\*   el      - the elapsed time the heartbeat measured
\*   load    - the load-playlist / media-element load submitted, with the
\*             caller's start position (req) and the snapshot position (cur)
\*   lc      - a part of loadChapter ran
\*   sent    - seek gave a position to the backend: seekTo, with the duration
\*             known at that moment in dur
\*   fired   - the sleep timeout ran; stale - it was not the one last scheduled
\*   cancelled - a pending sleep timeout was cleared
\*   dup     - a chapterChanged event carried the engine's current chapter id
\*   abandoned - loadChapter returned early; pre - the identity at its call
\*   live    - play() got the reply of getState: "dead" when it said not
\*             playing with zero duration, "alive" otherwise
\*   sentPlay - a play command was given to the backend
\*   reloaded - _reloadNativePlaylist returned after resubmitting the playlist
\*   wasPlaying - the engine had the backend as playing when playerError came
\*   cb      - the chapter-end function that was invoked
\*   fg      - the appStateChange listener: "background", "nobook" or "settle"
\*             at the event; "dead", "alive" or "gone" (dead, but no book is
\*             loaded any more) at the reply of its getState
EmptyOut(op) ==
  [op |-> op, notify |-> FALSE, info |-> NoInfo, persist |-> FALSE, cbs |-> 0,
   outro |-> 0, hb |-> "none", el |-> 0, loaded |-> FALSE, load |-> NoLoad,
   lc |-> FALSE, sent |-> FALSE, seekTo |-> 0, dur |-> 0, fired |-> FALSE,
   stale |-> FALSE, cancelled |-> FALSE, dup |-> FALSE, abandoned |-> FALSE,
   pre |-> NoIdentity, live |-> "none", sentPlay |-> FALSE, reloaded |-> FALSE,
   wasPlaying |-> FALSE, fg |-> "none", cb |-> NoCallback, called |-> {},
   prev |-> NoCmdArgs, pb |-> NoPb, nav |-> "none", was |-> NoInfo]

\* The record kept in `hist` from a serviceReset event that finds a book
\* loaded: the engine's chapter, index and reported position when the event
\* arrived, the load-playlist calls made since (their number, and the start
\* index and position of the first), the play commands issued since, whether
\* the first load came before them, and how far a play() called since has got.
NoHist ==
  [active |-> FALSE, chap |-> NoId, idx |-> 0, pos |-> 0, loads |-> 0, loadIdx |-> 0,
   loadPos |-> 0, plays |-> 0, loadFirst |-> TRUE, userPlay |-> "no"]

\* The JavaScript-side state as one record, so that a handler is a function
\* from state to state and handlers compose the way the calls nest.
Cur ==
  [bookId |-> bookId, chapterId |-> chapterId, chapterIndex |-> chapterIndex,
   totalChapters |-> totalChapters, chapterIds |-> chapterIds, speed |-> speed,
   sleepTimerEnd |-> sleepTimerEnd, skipSettings |-> skipSettings,
   skipOutroTriggered |-> skipOutroTriggered, onChapterEnd |-> onChapterEnd,
   nativePosition |-> nativePosition, nativeDuration |-> nativeDuration,
   nativePlaying |-> nativePlaying, lastStatUpdate |-> lastStatUpdate,
   sleepTimeout |-> sleepTimeout, audio |-> audio, objectUrl |-> objectUrl,
   urls |-> urls, progress |-> progress, timers |-> timers, tasks |-> tasks,
   bridge |-> bridge, out |-> out, hist |-> hist, outroCalls |-> outroCalls,
   listeners |-> listeners, lastReload |-> lastReload]

Begin(op) == [Cur EXCEPT !.out = EmptyOut(op), !.lastReload = NoCmdArgs]

\* the start of a step that continues the suspended method k; the steps of
\* a silent reconstruction and of the foreground check keep lastReload
BeginFor(op, k) ==
  [Cur EXCEPT !.out = EmptyOut(op),
              !.lastReload =
                 IF \/ op = "appStateChange"
                    \/ op \in {"resume", "reply"} /\ k.kind \in {"reload", "foreground"}
                   THEN @ ELSE NoCmdArgs]

Apply(s) ==
  /\ Len(s.tasks) <= MaxTasks
  /\ Len(s.bridge) <= MaxBridge
  /\ bookId' = s.bookId
  /\ chapterId' = s.chapterId
  /\ chapterIndex' = s.chapterIndex
  /\ totalChapters' = s.totalChapters
  /\ chapterIds' = s.chapterIds
  /\ speed' = s.speed
  /\ sleepTimerEnd' = s.sleepTimerEnd
  /\ skipSettings' = s.skipSettings
  /\ skipOutroTriggered' = s.skipOutroTriggered
  /\ onChapterEnd' = s.onChapterEnd
  /\ nativePosition' = s.nativePosition
  /\ nativeDuration' = s.nativeDuration
  /\ nativePlaying' = s.nativePlaying
  /\ lastStatUpdate' = s.lastStatUpdate
  /\ sleepTimeout' = s.sleepTimeout
  /\ audio' = s.audio
  /\ objectUrl' = s.objectUrl
  /\ urls' = s.urls
  /\ progress' = s.progress
  /\ timers' = s.timers
  /\ tasks' = s.tasks
  /\ bridge' = s.bridge
  /\ out' = s.out
  /\ hist' = s.hist
  /\ outroCalls' = s.outroCalls
  /\ listeners' = s.listeners
  /\ lastReload' = s.lastReload

Identity(s) ==
  [bookId |-> s.bookId, chapterId |-> s.chapterId, chapterIndex |-> s.chapterIndex,
   totalChapters |-> s.totalChapters, chapterIds |-> s.chapterIds,
   position |-> IF isNative THEN s.nativePosition ELSE s.audio.cur,
   duration |-> IF isNative THEN s.nativeDuration ELSE s.audio.dur,
   outroTriggered |-> s.skipOutroTriggered]

\* ------------------------------------------------- snapshot and observers
getInfo(s) ==
  [state |->
     IF s.bookId = NoId THEN "idle"
     ELSE IF isNative THEN (IF s.nativePlaying THEN "playing" ELSE "paused")
     ELSE IF s.audio.dur = NaNDur THEN "loading"
     ELSE IF ~s.audio.paused THEN "playing"
     ELSE "paused",
   bookId |-> s.bookId, chapterId |-> s.chapterId,
   chapterIndex |-> s.chapterIndex, totalChapters |-> s.totalChapters,
   currentTime |-> IF isNative THEN s.nativePosition ELSE s.audio.cur,
   duration |->
     IF isNative THEN s.nativeDuration
     ELSE IF s.audio.dur = NaNDur THEN 0 ELSE s.audio.dur,
   speed |-> s.speed, sleepTimerEnd |-> s.sleepTimerEnd,
   skipSettings |-> s.skipSettings]

\* the members of the `listeners` Set
Subscribed(ls) == {fn \in Observers : ls[fn] = "subscribed"}

subscribe(s, fn) == [s EXCEPT !.listeners[fn] = "subscribed"]

\* the function subscribe(fn) returned
unsubscribe(s, fn) == [s EXCEPT !.listeners[fn] = "unsubscribed"]

notify(s) ==
  [s EXCEPT !.out.notify = TRUE, !.out.info = getInfo(s),
            !.out.called = Subscribed(s.listeners)]

\* ------------------------------------------------------------- persistence
persistProgress(s) ==
  IF s.bookId = NoId \/ s.chapterId = NoId THEN s
  ELSE [s EXCEPT
          !.progress[s.bookId] =
             [chapterId |-> s.chapterId,
              position |-> IF isNative THEN s.nativePosition ELSE s.audio.cur,
              speed |-> s.speed],
          !.out.persist = TRUE]

\* Math.round((current + elapsed) * 10) / 10 with current in tenths of a
\* minute and elapsed in units of 0.05 minute: halves are rounded up.
RoundedMinutes(current, elapsed) == (2 * current + elapsed + 1) \div 2

\* (variant: a jump is rejected before the timestamp is advanced)
recordListeningTimeRejectsFirst(s) ==
  LET elapsed == now - s.lastStatUpdate IN
  IF elapsed > MaxElapsed
    THEN [s EXCEPT !.out.hb = "jump", !.out.el = elapsed]
  ELSE IF elapsed > MinElapsed
    THEN [s EXCEPT !.lastStatUpdate = now, !.out.el = elapsed, !.out.hb = "rmw",
                   !.tasks = Append(@, [NoTask EXCEPT !.kind = "stat", !.pc = "getStat",
                                                      !.val = elapsed])]
  ELSE IF s.out.hb = "none" THEN [s EXCEPT !.out.hb = "small", !.out.el = elapsed]
  ELSE s

\* recordListeningTime up to its await of getStat
recordListeningTime(s) ==
  LET elapsed == now - s.lastStatUpdate IN
  IF elapsed > MinElapsed
    THEN LET s1 == [s EXCEPT !.lastStatUpdate = now, !.out.el = elapsed] IN
         IF elapsed > MaxElapsed
           THEN [s1 EXCEPT !.out.hb = "jump"]
           ELSE [s1 EXCEPT
                   !.out.hb = "rmw",
                   !.tasks = Append(@, [NoTask EXCEPT !.kind = "stat", !.pc = "getStat",
                                                      !.val = elapsed])]
    ELSE IF s.out.hb = "none" THEN [s EXCEPT !.out.hb = "small", !.out.el = elapsed]
    ELSE s

startStatTracking(s) == [s EXCEPT !.lastStatUpdate = now]

stopStatTracking(s) == recordListeningTime(s)

\* ------------------------------------------------------ the native bridge
\* A call of a MediaControl method: the call is posted to the plugin; `k` is
\* the continuation awaiting its result (NoTask when the call is not awaited).
sendCmdArgs(s, cmd, a, k) ==
  [s EXCEPT
     !.bridge = Append(@, [cmd |-> cmd, a |-> a, k |-> k]),
     !.out.sentPlay = (@ \/ cmd = "play"),
     !.hist =
        IF s.hist.active /\ cmd = "play" THEN [@ EXCEPT !.plays = Min(@ + 1, 2)] ELSE @]

sendCmd(s, cmd, k) == sendCmdArgs(s, cmd, NoCmdArgs, k)

sendLoad(s, ids, index, pos, k) ==
  [s EXCEPT
     !.bridge =
        Append(@, [cmd |-> "loadPlaylist",
                   a |-> [ids |-> ids, index |-> index, pos |-> pos, speed |-> s.speed],
                   k |-> k]),
     !.lastReload =
        IF k.kind = "reload"
          THEN [ids |-> ids, index |-> index, pos |-> pos, speed |-> s.speed]
          ELSE NoCmdArgs,
     !.out.loaded = TRUE,
     !.out.prev = s.lastReload,
     !.out.load = [by |-> k.kind, ids |-> ids, index |-> index, pos |-> pos,
                   speed |-> s.speed, req |-> k.val,
                   cur |-> getInfo(s).currentTime],
     !.hist =
        IF s.hist.active
          THEN [@ EXCEPT
                  !.loads = Min(@ + 1, 2),
                  !.loadIdx = IF s.hist.loads = 0 THEN index ELSE @,
                  !.loadPos = IF s.hist.loads = 0 THEN pos ELSE @,
                  !.loadFirst = IF s.hist.loads = 0 THEN s.hist.plays = 0 ELSE @,
                  !.plays = IF k.auto THEN Min(@ + 1, 2) ELSE @]
          ELSE @]

\* ---------------------------------------------------------- play and pause
pause(s) ==
  IF isNative
    THEN notify(sendCmd(s, "pause", NoTask))
    ELSE notify(persistProgress(stopStatTracking([s EXCEPT !.audio.paused = TRUE])))

\* _reloadNativePlaylist up to its first await; `ret` says what the caller
\* does once the reload has returned.
finishRet(s, ret) == IF ret = "notify" THEN notify(s) ELSE s

reloadNativePlaylist(s, autoPlay, ret) ==
  IF ~isNative \/ s.bookId = NoId \/ s.chapterId = NoId
    THEN finishRet(s, ret)
    ELSE [s EXCEPT
            !.tasks = Append(@, [NoTask EXCEPT !.kind = "reload", !.pc = "db",
                                               !.book = s.bookId, !.auto = autoPlay,
                                               !.ret = ret])]

\* play() up to its first await
play(s) ==
  LET s0 == [s EXCEPT !.hist.userPlay = IF s.hist.active /\ @ = "no" THEN "called" ELSE @] IN
  IF isNative
    THEN sendCmd(s0, "getState", [NoTask EXCEPT !.kind = "play", !.pc = "getState"])
    ELSE IF s0.audio.src = NoId THEN s0
    ELSE [s0 EXCEPT
            !.audio.paused = FALSE,
            !.tasks = Append(@, [NoTask EXCEPT !.kind = "play", !.pc = "audioPlay"])]

\* what follows the return of an awaited engine call
finish(s, t) ==
  IF t.ret = "play" THEN play(s)
  ELSE IF t.ret = "notify"
    THEN notify([s EXCEPT !.hist.userPlay = IF @ = "called" THEN "done" ELSE @])
  ELSE s

\* ------------------------------------------------------------ loadChapter
\* (variant: the intro is skipped whatever the start position asked for)
effectiveStartAlways(settings, startPosition) ==
  IF settings.enabled /\ settings.introSeconds > 0
    THEN settings.introSeconds
    ELSE startPosition

\* the start position after auto-skip of the intro
effectiveStart(settings, startPosition) ==
  IF settings.enabled /\ settings.introSeconds > 0 /\ startPosition = 0
    THEN settings.introSeconds
    ELSE startPosition

\* (variant: a load puts the engine back to the default speed)
loadChapterResetsSpeed(s, b, c, ids, startPosition, ret) ==
  LET s1 == [s EXCEPT
               !.bookId = b, !.chapterId = c, !.chapterIds = ids,
               !.chapterIndex = IndexOf(ids, c), !.totalChapters = Len(ids),
               !.skipOutroTriggered = FALSE, !.speed = DefaultSpeed,
               !.outroCalls = 0, !.hist = NoHist, !.out.lc = TRUE]
      t == [NoTask EXCEPT
              !.kind = "load", !.book = b, !.chap = c, !.ret = ret,
              !.val = startPosition, !.pre = s.out.pre,
              !.pos = effectiveStart(s.skipSettings, startPosition)]
  IN IF isNative
       THEN [s1 EXCEPT !.tasks = Append(@, [t EXCEPT !.pc = "db"])]
       ELSE [s1 EXCEPT
               !.audio.paused = TRUE,
               !.urls = @ \ {s.objectUrl},
               !.objectUrl = 0,
               !.tasks = Append(@, [t EXCEPT !.pc = "getChapter"])]

\* loadChapter up to its first await; `ret` is "play" when the caller awaits
\* the load and then calls play()
loadChapter(s, b, c, ids, startPosition, ret) ==
  LET s1 == [s EXCEPT
               !.bookId = b, !.chapterId = c, !.chapterIds = ids,
               !.chapterIndex = IndexOf(ids, c), !.totalChapters = Len(ids),
               !.skipOutroTriggered = FALSE,
               !.outroCalls = 0, !.hist = NoHist, !.out.lc = TRUE]
      t == [NoTask EXCEPT
              !.kind = "load", !.book = b, !.chap = c, !.ret = ret,
              !.val = startPosition, !.pre = s.out.pre,
              !.pos = effectiveStart(s.skipSettings, startPosition)]
  IN IF isNative
       THEN [s1 EXCEPT !.tasks = Append(@, [t EXCEPT !.pc = "db"])]
       ELSE [s1 EXCEPT
               !.audio.paused = TRUE,
               !.urls = @ \ {s.objectUrl},
               !.objectUrl = 0,
               !.tasks = Append(@, [t EXCEPT !.pc = "getChapter"])]

\* loadChapter, native branch, from the return of the storage reads to the
\* await of loadPlaylist
loadChapterNative(s, t) ==
  LET ids == PathsOf(DbChapters(t.book))
      startIdx == IndexOf(ids, t.chap)
  IN IF ids = << >>
       THEN finish([s EXCEPT !.out.abandoned = TRUE, !.out.pre = t.pre], t)
     ELSE LET s1 == [s EXCEPT
                       !.out.lc = TRUE,
                       !.chapterIndex = IF startIdx >= 0 THEN startIdx ELSE 0,
                       !.chapterIds = ids, !.totalChapters = Len(ids),
                       !.nativePosition = t.pos, !.nativeDuration = 0]
          IN sendLoad(notify(s1), ids, s1.chapterIndex, t.pos,
                      [t EXCEPT !.pc = "loadPlaylist"])

\* loadChapter, last lines, reached on both backends
loadChapterEnd(s, t) ==
  finish(notify([s EXCEPT !.lastStatUpdate = now, !.out.lc = TRUE]), t)

\* the media element is given a new source, rate and position
audioLoad(s, t, src) ==
  LET a == [src |-> src, cur |-> t.pos, dur |-> NaNDur, paused |-> TRUE,
            rate |-> s.speed]
      s1 == [s EXCEPT !.audio = a, !.out.lc = TRUE]
  IN [s1 EXCEPT
        !.out.loaded = TRUE,
        !.out.load = [by |-> t.kind, ids |-> << src >>, index |-> 0, pos |-> a.cur,
                      speed |-> a.rate, req |-> t.val,
                      cur |-> getInfo(s1).currentTime]]

\* loadChapter, web branch, after getChapter
loadChapterWeb(s, t) ==
  IF ChapterRec(t.chap).path
    THEN loadChapterEnd(audioLoad(s, t, t.chap), t)
    ELSE [s EXCEPT !.tasks = Append(@, [t EXCEPT !.pc = "getAudioBlob"])]

\* loadChapter, web branch, after getAudioBlob
loadChapterBlob(s, t) ==
  IF ~ChapterRec(t.chap).blob
    THEN finish([s EXCEPT !.out.abandoned = TRUE, !.out.pre = t.pre], t)
  ELSE LET u == CHOOSE n \in 1 .. (Cardinality(s.urls) + 1) : n \notin s.urls
           s1 == [s EXCEPT !.objectUrl = u, !.urls = @ \cup {u}]
       IN loadChapterEnd(audioLoad(s1, t, t.chap), t)

\* ------------------------------------------------ recovery of the session
\* (variant: the reported position is cleared once it has been submitted)
reloadAfterDbClearsPosition(s, t) ==
  LET ids == PathsOf(DbChapters(t.book))
      startIdx == IndexOf(ids, s.chapterId)
      resumePosition == s.nativePosition
  IN IF ids = << >> THEN finish(s, t)
     ELSE [sendLoad(s, ids, IF startIdx >= 0 THEN startIdx ELSE 0, resumePosition,
                    [t EXCEPT !.pc = "loadPlaylist"])
             EXCEPT !.nativePosition = 0]

\* _reloadNativePlaylist from the return of the storage reads
reloadAfterDb(s, t) ==
  LET ids == PathsOf(DbChapters(t.book))
      startIdx == IndexOf(ids, s.chapterId)
      resumePosition == s.nativePosition
  IN IF ids = << >> THEN finish(s, t)
     ELSE sendLoad(s, ids, IF startIdx >= 0 THEN startIdx ELSE 0, resumePosition,
                   [t EXCEPT !.pc = "loadPlaylist"])

\* ... from the return of loadPlaylist
reloadAfterLoad(s, t, ok) ==
  IF ok /\ ~t.auto THEN sendCmd(s, "pause", [t EXCEPT !.pc = "pause"])
  ELSE finish([s EXCEPT !.out.reloaded = TRUE], t)

\* ... from the return of pause
reloadAfterPause(s, t) == finish([s EXCEPT !.out.reloaded = TRUE], t)

\* the serviceReset listener
serviceReset(s) ==
  LET s1 == notify([s EXCEPT !.nativePlaying = FALSE, !.nativePosition = 0,
                             !.nativeDuration = 0])
  IN IF s.bookId # NoId /\ s.chapterId # NoId /\ Len(s.chapterIds) > 0
       THEN reloadNativePlaylist(
              [s1 EXCEPT !.hist = [NoHist EXCEPT !.active = TRUE, !.chap = s.chapterId,
                                                 !.idx = s.chapterIndex,
                                                 !.pos = s.nativePosition]],
              FALSE, "none")
       ELSE s1

\* the appStateChange listener: setTimeout(..., 500) is an await of the delay
appStateChange(s, isActive) ==
  IF ~isActive THEN [s EXCEPT !.out.fg = "background"]
  ELSE IF s.bookId = NoId \/ s.chapterId = NoId THEN [s EXCEPT !.out.fg = "nobook"]
  ELSE [s EXCEPT !.out.fg = "settle",
                 !.tasks = Append(@, [NoTask EXCEPT !.kind = "foreground",
                                                    !.pc = "settle"])]

\* ... when the delay has passed
foregroundSettled(s, t) == sendCmd(s, "getState", [t EXCEPT !.pc = "getState"])

\* (variant: the playlist is resubmitted whatever the backend reports)
foregroundAfterGetStateAlways(s, t, reply) ==
  IF s.bookId # NoId /\ s.chapterId # NoId
    THEN reloadNativePlaylist(
           [s EXCEPT !.out.fg = IF ~reply.playing /\ reply.dur = 0
                                  THEN "dead" ELSE "alive"], FALSE, "none")
    ELSE [s EXCEPT !.out.fg = "gone"]

\* ... from the reply of getState
foregroundAfterGetState(s, t, reply) ==
  IF ~reply.playing /\ reply.dur = 0
    THEN IF s.bookId # NoId /\ s.chapterId # NoId
           THEN reloadNativePlaylist([s EXCEPT !.out.fg = "dead"], FALSE, "none")
           ELSE [s EXCEPT !.out.fg = "gone"]
    ELSE [s EXCEPT !.out.fg = "alive"]

\* play() from the reply of getState
playAfterGetState(s0, t, reply) ==
  LET s == [s0 EXCEPT !.out.live = IF ~reply.playing /\ reply.dur = 0
                                     THEN "dead" ELSE "alive"] IN
  IF ~reply.playing /\ reply.dur = 0 /\ s.bookId # NoId /\ s.chapterId # NoId
    THEN reloadNativePlaylist(s, TRUE, "notify")
    ELSE sendCmd(s, "play", [t EXCEPT !.pc = "play", !.ret = "notify"])

\* ------------------------------------------- chapter end and outro-skip
\* the callback the app registers with setOnChapterEnd
\* (variant: the callback loads the chapter that has just ended again)
appOnChapterEndSameChapter(s) ==
  LET info == getInfo(s)
      ids == s.chapterIds
      nextIdx == info.chapterIndex + 1
  IN IF info.bookId = NoId THEN s
     ELSE IF nextIdx < Len(ids)
       THEN loadChapter(s, info.bookId, ids[nextIdx], ids, 0, "play")
     ELSE pause(s)

appOnChapterEnd(s) ==
  LET info == getInfo(s)
      ids == s.chapterIds
      nextIdx == info.chapterIndex + 1
  IN IF info.bookId = NoId THEN s
     ELSE IF nextIdx < Len(ids)
       THEN loadChapter(s, info.bookId, ids[nextIdx + 1], ids, 0, "play")
     ELSE pause(s)

\* (variant: the function registered first stays the one that is called)
callOnChapterEndFirst(s) ==
  IF s.onChapterEnd # NoCallback
    THEN appOnChapterEnd([s EXCEPT !.out.cbs = @ + 1, !.out.cb = 1])
    ELSE s

callOnChapterEnd(s) ==
  IF s.onChapterEnd # NoCallback
    THEN appOnChapterEnd([s EXCEPT !.out.cbs = @ + 1, !.out.cb = s.onChapterEnd])
    ELSE s

\* (variant: the trigger flag is set but never consulted)
checkOutroSkipRepeats(s) ==
  LET duration == getInfo(s).duration
      currentTime == getInfo(s).currentTime
      remaining == duration - currentTime
  IN IF ~s.skipSettings.enabled \/ s.skipSettings.outroSeconds <= 0 THEN s
     ELSE IF duration <= 0 THEN s
     ELSE IF remaining <= s.skipSettings.outroSeconds /\ remaining > 0
       THEN LET s1 == [s EXCEPT !.skipOutroTriggered = TRUE] IN
            IF s1.onChapterEnd # NoCallback
              THEN appOnChapterEnd([s1 EXCEPT !.out.cbs = @ + 1, !.out.outro = @ + 1,
                                              !.outroCalls = Min(@ + 1, 2)])
              ELSE s1
     ELSE s

\* (variant: the end of the media itself counts as inside the outro)
checkOutroSkipAtEnd(s) ==
  LET duration == getInfo(s).duration
      currentTime == getInfo(s).currentTime
      remaining == duration - currentTime
  IN IF ~s.skipSettings.enabled \/ s.skipSettings.outroSeconds <= 0 THEN s
     ELSE IF s.skipOutroTriggered THEN s
     ELSE IF duration <= 0 THEN s
     ELSE IF remaining <= s.skipSettings.outroSeconds /\ remaining >= 0
       THEN LET s1 == [s EXCEPT !.skipOutroTriggered = TRUE] IN
            IF s1.onChapterEnd # NoCallback
              THEN appOnChapterEnd([s1 EXCEPT !.out.cbs = @ + 1, !.out.outro = @ + 1,
                                              !.outroCalls = Min(@ + 1, 2)])
              ELSE s1
     ELSE s

checkOutroSkip(s) ==
  LET duration == getInfo(s).duration
      currentTime == getInfo(s).currentTime
      remaining == duration - currentTime
  IN IF ~s.skipSettings.enabled \/ s.skipSettings.outroSeconds <= 0 THEN s
     ELSE IF s.skipOutroTriggered THEN s
     ELSE IF duration <= 0 THEN s
     ELSE IF remaining <= s.skipSettings.outroSeconds /\ remaining > 0
       THEN LET s1 == [s EXCEPT !.skipOutroTriggered = TRUE] IN
            IF s1.onChapterEnd # NoCallback
              THEN appOnChapterEnd([s1 EXCEPT !.out.cbs = @ + 1, !.out.outro = @ + 1,
                                              !.out.cb = s.onChapterEnd,
                                              !.outroCalls = Min(@ + 1, 2)])
              ELSE s1
     ELSE s

\* ------------------------------------------------------- other commands
togglePlay(s) ==
  IF isNative
    THEN (IF s.nativePlaying THEN pause(s) ELSE play(s))
    ELSE (IF s.audio.paused THEN play(s) ELSE pause(s))

seek(s, time) ==
  IF isNative
    THEN LET s1 == sendCmdArgs(s, "seekTo", [NoCmdArgs EXCEPT !.pos = time], NoTask)
             s2 == [s1 EXCEPT !.nativePosition = time,
                              !.out.sent = TRUE, !.out.seekTo = time,
                              !.out.dur = s.nativeDuration]
         IN notify(persistProgress(s2))
    ELSE IF s.audio.dur # NaNDur
      THEN LET s1 == [s EXCEPT !.audio.cur = Max(0, Min(time, s.audio.dur))]
               s2 == [s1 EXCEPT !.out.sent = TRUE, !.out.seekTo = s1.audio.cur,
                                !.out.dur = s.audio.dur]
           IN notify(persistProgress(s2))
    ELSE notify(s)

seekRelative(s, delta) ==
  LET cur == IF isNative THEN s.nativePosition ELSE s.audio.cur
  IN seek(s, cur + delta)

setSpeed(s, x) ==
  LET s1 == [s EXCEPT !.speed = x] IN
  IF isNative
    THEN notify(sendCmdArgs(s1, "setSpeed", [NoCmdArgs EXCEPT !.speed = x], NoTask))
    ELSE notify([s1 EXCEPT !.audio.rate = x])

\* { ...this._skipSettings, ...settings }
MergeSettings(cur, partial) ==
  [k \in DOMAIN cur |-> IF k \in DOMAIN partial THEN partial[k] ELSE cur[k]]

setSkipSettings(s, settings) ==
  notify([s EXCEPT !.skipSettings = MergeSettings(@, settings)])

\* (variant: the handle is forgotten but the timeout is left pending)
clearSleepTimeoutKeeps(s) ==
  IF s.sleepTimeout # 0
    THEN [s EXCEPT !.sleepTimeout = 0, !.out.cancelled = TRUE]
    ELSE s

\* if (this.sleepTimeout) { clearTimeout(this.sleepTimeout); this.sleepTimeout = null; }
clearSleepTimeout(s) ==
  IF s.sleepTimeout # 0
    THEN [s EXCEPT !.timers = {t \in @ : t.id # s.sleepTimeout}, !.sleepTimeout = 0,
                   !.out.cancelled = TRUE]
    ELSE s

\* minutes = NoTime stands for null
setSleepTimer(s, minutes) ==
  LET s1 == clearSleepTimeout(s) IN
  IF minutes = NoTime
    THEN notify([s1 EXCEPT !.sleepTimerEnd = NoTime])
    ELSE LET id == CHOOSE n \in 1 .. (Cardinality(s1.timers) + 1) :
                     \A t \in s1.timers : t.id # n
             due == now + minutes * UnitsPerMinute
         IN notify([s1 EXCEPT !.sleepTimerEnd = due,
                              !.timers = @ \cup {[id |-> id, due |-> due]},
                              !.sleepTimeout = id])

\* (variant: the callback pauses but leaves the deadline stored)
sleepTimeoutFiredKeepsDeadline(s, t) ==
  LET s1 == pause([s EXCEPT !.timers = @ \ {t}, !.out.fired = TRUE])
  IN notify([s1 EXCEPT !.sleepTimeout = 0])

\* the callback given to window.setTimeout by setSleepTimer
sleepTimeoutFired(s, t) ==
  LET s1 == pause([s EXCEPT !.timers = @ \ {t},
                            !.out.fired = TRUE,
                            !.out.stale = (t.id # s.sleepTimeout \/ t.due # s.sleepTimerEnd)])
  IN notify([s1 EXCEPT !.sleepTimerEnd = NoTime, !.sleepTimeout = 0])

\* (variant: stop() forgets the deadline but leaves the timeout pending)
stopKeepsSleepTimer(s) ==
  LET s1 == pause(s)
      s2 == IF isNative THEN sendCmd(s1, "stopService", NoTask)
            ELSE [s1 EXCEPT !.audio = [@ EXCEPT !.src = NoId, !.cur = 0, !.dur = NaNDur,
                                                !.paused = TRUE],
                            !.urls = @ \ {s1.objectUrl}, !.objectUrl = 0]
  IN notify([s2 EXCEPT !.bookId = NoId, !.chapterId = NoId, !.chapterIds = << >>,
                       !.chapterIndex = 0, !.totalChapters = 0,
                       !.sleepTimerEnd = NoTime, !.nativePosition = 0,
                       !.nativeDuration = 0, !.nativePlaying = FALSE,
                       !.hist = NoHist])

stop(s) ==
  LET s1 == pause(s)
      s2 == IF isNative THEN s1
            ELSE [s1 EXCEPT !.audio = [@ EXCEPT !.src = NoId, !.cur = 0, !.dur = NaNDur,
                                                !.paused = TRUE],
                            !.urls = @ \ {s1.objectUrl}, !.objectUrl = 0]
      s3 == IF isNative THEN sendCmd(s2, "stopService", NoTask) ELSE s2
      s4 == [s3 EXCEPT !.bookId = NoId, !.chapterId = NoId, !.chapterIds = << >>,
                       !.chapterIndex = 0, !.totalChapters = 0,
                       !.sleepTimerEnd = NoTime, !.nativePosition = 0,
                       !.nativeDuration = 0, !.nativePlaying = FALSE,
                       !.hist = NoHist]
  IN notify(clearSleepTimeout(s4))

\* ------------------------------------------------- native event listeners
playingChanged(s, isPlaying) ==
  LET s1 == [s EXCEPT !.nativePlaying = isPlaying] IN
  IF isPlaying THEN notify(startStatTracking(s1))
  ELSE notify(persistProgress(stopStatTracking(s1)))

positionUpdate(s, position, duration) ==
  LET s1 == [s EXCEPT !.nativePosition = position, !.nativeDuration = duration]
  IN notify(recordListeningTime(checkOutroSkip(s1)))

\* (variant: every chapterChanged event is applied)
chapterChangedAlways(s, index, mediaId) ==
  notify(persistProgress([s EXCEPT !.chapterIndex = index,
                                   !.chapterId = mediaId,
                                   !.nativePosition = 0]))

\* (variant: an accepted chapterChanged keeps the reported position)
chapterChangedKeepsPosition(s, index, mediaId) ==
  IF s.chapterId # mediaId
    THEN notify(persistProgress([s EXCEPT !.chapterIndex = index,
                                          !.chapterId = mediaId]))
    ELSE s

chapterChanged(s, index, mediaId) ==
  IF s.chapterId # mediaId
    THEN notify(persistProgress([s EXCEPT !.chapterIndex = index,
                                          !.chapterId = mediaId,
                                          !.nativePosition = 0]))
    ELSE s

completed(s) == notify(callOnChapterEnd([s EXCEPT !.nativePlaying = FALSE]))

\* (variant: the engine answers an error by asking the backend to play again)
playerErrorRetries(s) ==
  notify(sendCmd([s EXCEPT !.nativePlaying = FALSE], "play", NoTask))

playerError(s) == notify([s EXCEPT !.nativePlaying = FALSE])

\* --------------------------------------------- media element listeners
timeupdate(s) == notify(recordListeningTime(checkOutroSkip(s)))

ended(s) == callOnChapterEnd(s)

\* ----------------------------------------------------------------- Init
\* { enabled: false, introSeconds: 30, outroSeconds: 15 }, scaled to ChapDur
DefaultSkipSettings == [enabled |-> FALSE, introSeconds |-> 2, outroSeconds |-> 2]

\* the engine after construction, over the progress records `saved`
InitOver(saved) ==
  /\ isNative \in BOOLEAN
  /\ bookId = NoId /\ chapterId = NoId /\ chapterIndex = 0 /\ totalChapters = 0
  /\ chapterIds = << >>
  /\ speed = DefaultSpeed
  /\ sleepTimerEnd = NoTime
  /\ skipSettings = DefaultSkipSettings
  /\ skipOutroTriggered = FALSE
  /\ onChapterEnd = NoCallback
  /\ nativePosition = 0 /\ nativeDuration = 0 /\ nativePlaying = FALSE
  /\ lastStatUpdate = 0
  /\ sleepTimeout = 0
  /\ audio = [src |-> NoId, cur |-> 0, dur |-> NaNDur, paused |-> TRUE,
              rate |-> DefaultSpeed]
  /\ objectUrl = 0 /\ urls = {}
  /\ progress \in saved
  /\ stat = 0
  /\ now = 0
  /\ timers = {}
  /\ tasks = << >> /\ bridge = << >> /\ inbox = << >>
  /\ svcAlive = FALSE /\ bPlaying = FALSE /\ bDur = 0 /\ bIds = << >>
  /\ out = EmptyOut("init")
  /\ hist = NoHist
  /\ outroCalls = 0
  /\ reordered = FALSE
  /\ listeners = [fn \in Observers |-> "never"]
  /\ lastReload = NoCmdArgs
  /\ polls = << >>

Init == InitOver({[b \in Books |-> NoProgress]})

backendVars == << svcAlive, bPlaying, bDur, bIds >>

\* a turn of the JavaScript event loop that ends in state s
JsStep(s) ==
  /\ Apply(s)
  /\ UNCHANGED << isNative, stat, now, inbox, backendVars, reordered, polls >>

\* -------------------------------------------------- calls made by the app
SetOnChapterEnd ==
  /\ onChapterEnd = NoCallback
  /\ JsStep([Begin("setOnChapterEnd") EXCEPT !.onChapterEnd = 1])

\* setOnChapterEnd is called again, with another function
SetOnChapterEndAgain ==
  /\ onChapterEnd = 1
  /\ JsStep([Begin("setOnChapterEnd") EXCEPT !.onChapterEnd = 2])

\* loadChapter called with a book of `bs`, one of its chapters, the book's
\* ordered chapter ids and a start position of `sps`; with ret = "play" the
\* caller awaits the load and then calls play(), as the app does
LoadChapterFrom(bs, sps, rets) ==
  \E b \in bs, sp \in sps, ret \in rets :
    \E c \in ChapterIdsOf(b) :
      JsStep(loadChapter(Begin("loadChapter"), b, c, AllIds(b), sp, ret))

LoadChapter == LoadChapterFrom(Books, 0 .. ChapDur, {"none", "play"})

\* the same call, with the identity fields it finds kept for comparison
LoadChapterFollowed(bs, sps) ==
  \E b \in bs, sp \in sps :
    \E c \in ChapterIdsOf(b) :
      JsStep(loadChapter([Begin("loadChapter") EXCEPT !.out.pre = Identity(Cur)],
                         b, c, AllIds(b), sp, "none"))

Subscribe == \E fn \in Observers : JsStep(subscribe(Begin("subscribe"), fn))

\* a function returned by an earlier subscribe(fn) is called
Unsubscribe ==
  \E fn \in Observers :
    /\ listeners[fn] # "never"
    /\ JsStep(unsubscribe(Begin("unsubscribe"), fn))

Play == JsStep(play(Begin("play")))

Pause == JsStep(pause(Begin("pause")))

TogglePlay == JsStep(togglePlay(Begin("togglePlay")))

Seek == \E time \in SeekTargets : JsStep(seek(Begin("seek"), time))

\* the skip-back and skip-forward buttons, pressed while the position shown
\* is one the backend can have reported
SeekRelative ==
  /\ getInfo(Cur).currentTime \in 0 .. ChapDur
  /\ \E d \in SeekDeltas : JsStep(seekRelative(Begin("seek"), d))

SetSpeed == \E x \in Speeds : JsStep(setSpeed(Begin("setSpeed"), x))

\* the two calls the player page makes: the switch, and the two lengths
SetSkipSettingsFrom(es, is, os) ==
  \/ \E e \in es :
       /\ e # skipSettings.enabled
       /\ JsStep(setSkipSettings(Begin("setSkipSettings"), [enabled |-> e]))
  \/ \E i \in is, o \in os :
       /\ << i, o >> # << skipSettings.introSeconds, skipSettings.outroSeconds >>
       /\ JsStep(setSkipSettings(Begin("setSkipSettings"),
                                 [introSeconds |-> i, outroSeconds |-> o]))

SetSkipSettings == SetSkipSettingsFrom(BOOLEAN, IntroVals, OutroVals)

SetSleepTimer ==
  \E m \in SleepMinutes \cup {NoTime} :
    JsStep(setSleepTimer(Begin("setSleepTimer"), m))

SleepTimeoutFired ==
  \E t \in timers :
    /\ now >= t.due
    /\ \E s \in {sleepTimeoutFired(Begin("sleepTimeout"), t)} : JsStep(s)

Stop == JsStep(stop(Begin("stop")))

PersistProgress == JsStep(persistProgress(Begin("persistProgress")))

\* ------------------------------------------ events of the native backend
\* the player is playing: play-when-ready is set and the playlist is prepared
BackendPlaying == svcAlive /\ bPlaying /\ bDur > 0

\* onIsPlayingChanged: the player's playing state, when it is not the one the
\* engine was last told
PlayingChanged ==
  /\ isNative /\ svcAlive
  /\ nativePlaying # BackendPlaying
  /\ JsStep(playingChanged(Begin("playingChanged"), BackendPlaying))

\* the plugin reports the player's position once a second; the duration it
\* reports is the player's, unset until the player has prepared the playlist
PositionUpdateAt(ps) ==
  /\ isNative /\ svcAlive /\ bIds # << >>
  /\ \E p \in ps :
       JsStep(positionUpdate(Begin("positionUpdate"), p,
                             IF bDur = 0 THEN TimeUnset ELSE bDur))

PositionUpdate == PositionUpdateAt(0 .. ChapDur)

\* the player moves to an entry of its playlist (or reports the entry it was
\* given, when a playlist is set)
ChapterChanged ==
  /\ isNative /\ svcAlive
  /\ \E i \in 1 .. Len(bIds) :
       JsStep(chapterChanged(
                [Begin("chapterChanged") EXCEPT !.out.dup = (bIds[i] = chapterId)],
                i - 1, bIds[i]))

Completed ==
  /\ isNative /\ svcAlive /\ bIds # << >>
  /\ JsStep(completed([Begin("completed") EXCEPT !.out.wasPlaying = nativePlaying]))

\* the player fails: it stops playing and the engine's listener is called
PlayerError ==
  /\ isNative /\ svcAlive /\ bIds # << >>
  /\ Apply(playerError([Begin("playerError") EXCEPT !.out.wasPlaying = nativePlaying]))
  /\ bPlaying' = FALSE
  /\ UNCHANGED << isNative, stat, now, inbox, svcAlive, bDur, bIds, reordered, polls >>

\* the app goes to the background or comes back to the foreground
AppStateChange ==
  /\ isNative
  /\ \E isActive \in BOOLEAN :
       JsStep(appStateChange(BeginFor("appStateChange", NoTask), isActive))

\* -------------------------------------------- events of the media element
LoadedMetadata ==
  /\ ~isNative /\ audio.src # NoId /\ audio.dur = NaNDur
  /\ JsStep(notify([Begin("loadedmetadata") EXCEPT !.audio.dur = ChapDur]))

TimeUpdateAt(ps) ==
  /\ ~isNative /\ audio.src # NoId /\ audio.dur # NaNDur
  /\ \E p \in ps :
       JsStep(timeupdate([Begin("timeupdate") EXCEPT !.audio.cur = p]))

TimeUpdate == TimeUpdateAt(0 .. ChapDur)

Ended ==
  /\ ~isNative /\ audio.src # NoId /\ audio.dur # NaNDur /\ ~audio.paused
  /\ JsStep(ended([Begin("ended") EXCEPT !.audio.cur = audio.dur,
                                         !.audio.paused = TRUE]))

\* ------------------------------------------------ awaits that come back
RemoveAt(seq, i) == SubSeq(seq, 1, i - 1) \o SubSeq(seq, i + 1, Len(seq))

\* ------------------------------------- the app's nextChapter, prevChapter
\* info.currentTime > 3: the seconds into a chapter after which prevChapter
\* restarts it, on the scale of ChapDur
RestartAfter == 1

nextChapter(s) ==
  LET info == getInfo(s)
      ids == s.chapterIds
      nextIdx == info.chapterIndex + 1
      s0 == [s EXCEPT !.out.nav = "next", !.out.was = info]
  IN IF info.bookId = NoId THEN s0
     ELSE IF nextIdx < Len(ids)
       THEN loadChapter(s0, info.bookId, ids[nextIdx + 1], ids, 0, "play")
     ELSE s0

prevChapter(s) ==
  LET info == getInfo(s)
      ids == s.chapterIds
      prevIdx == info.chapterIndex - 1
      s0 == [s EXCEPT !.out.nav = "prev", !.out.was = info]
  IN IF info.bookId = NoId THEN s0
     ELSE IF info.currentTime > RestartAfter THEN seek(s0, 0)
     ELSE IF prevIdx >= 0
       THEN loadChapter(s0, info.bookId, ids[prevIdx + 1], ids, 0, "play")
     ELSE s0

\* ---------------------------------------------------- the app's playBook
\* a book that has no chapter records
EmptyBook == "b0"

\* db.getProgress(bookId)
getProgress(s, b) == IF b \in Books THEN s.progress[b] ELSE NoProgress

\* playBook: with pc = "call" up to its first await, with the other values
\* of pc from the return of that storage read to the next await
playBook(s, t) ==
  IF t.pc = "call"
    THEN [s EXCEPT !.tasks = Append(@, [t EXCEPT !.pc = "getChaptersByBook"])]
  ELSE IF t.pc = "getChaptersByBook"
    THEN IF Len(DbChapters(t.book)) = 0
           THEN [s EXCEPT !.out.pb = [NoPb EXCEPT !.book = t.book, !.explicit = t.chap]]
           ELSE [s EXCEPT !.tasks = Append(@, [t EXCEPT !.pc = "getProgress"])]
  ELSE
    LET ids == AllIds(t.book)
        p == getProgress(s, t.book)
        resumes == t.chap = NoId /\ p # NoProgress
        target0 == IF resumes THEN p.chapterId
                   ELSE IF t.chap # NoId THEN t.chap
                   ELSE ids[1]
        start0 == IF resumes THEN p.position ELSE 0
        s1 == IF resumes /\ p.speed # 0 THEN setSpeed(s, p.speed) ELSE s
        known == IndexOf(ids, target0) >= 0
        target == IF known THEN target0 ELSE ids[1]
        start == IF known THEN start0 ELSE 0
        s2 == loadChapter(s1, t.book, target, ids, start, "play")
    IN [s2 EXCEPT
          !.out.pb = [book |-> t.book, explicit |-> t.chap, saved |-> p,
                      n |-> Len(ids), called |-> TRUE, chap |-> s2.chapterId,
                      req |-> s2.tasks[Len(s2.tasks)].val,
                      pos |-> s2.tasks[Len(s2.tasks)].pos,
                      speed |-> s2.speed]]

resume(s, t) ==
  IF t.kind = "playBook" THEN playBook(s, t)
  ELSE IF t.kind = "load" /\ t.pc = "db" THEN loadChapterNative(s, t)
  ELSE IF t.kind = "load" /\ t.pc = "getChapter" THEN loadChapterWeb(s, t)
  ELSE IF t.kind = "load" /\ t.pc = "getAudioBlob" THEN loadChapterBlob(s, t)
  ELSE IF t.kind = "reload" /\ t.pc = "db" THEN reloadAfterDb(s, t)
  ELSE IF t.kind = "play" /\ t.pc = "audioPlay" THEN notify(startStatTracking(s))
  ELSE IF t.kind = "foreground" /\ t.pc = "settle" THEN foregroundSettled(s, t)
  ELSE s

\* a storage read (or audio.play()) resolves and its continuation runs
AwaitResolved ==
  \E i \in 1 .. Len(tasks) :
    /\ tasks[i].kind # "stat"
    /\ \E s \in {resume([BeginFor("resume", tasks[i]) EXCEPT !.tasks = RemoveAt(@, i)],
                      tasks[i])} : JsStep(s)

statFrame ==
  << isNative, bookId, chapterId, chapterIndex, totalChapters, chapterIds,
     speed, sleepTimerEnd, skipSettings, skipOutroTriggered, onChapterEnd,
     nativePosition, nativeDuration, nativePlaying, lastStatUpdate,
     sleepTimeout, audio, objectUrl, urls, progress, now, timers, bridge,
     inbox, backendVars, hist, outroCalls, reordered, listeners, lastReload, polls >>

\* getStat(today) resolves: recordListeningTime holds the stored minutes
GetStat ==
  \E i \in 1 .. Len(tasks) :
    /\ tasks[i].kind = "stat" /\ tasks[i].pc = "getStat"
    /\ tasks' = [tasks EXCEPT ![i] = [@ EXCEPT !.pc = "saveStat", !.pos = stat]]
    /\ out' = EmptyOut("getStat")
    /\ UNCHANGED stat
    /\ UNCHANGED statFrame

\* saveStat writes the sum recordListeningTime computed from what it read
SaveStat ==
  \E i \in 1 .. Len(tasks) :
    /\ tasks[i].kind = "stat" /\ tasks[i].pc = "saveStat"
    /\ stat' = RoundedMinutes(tasks[i].pos, tasks[i].val)
    /\ tasks' = RemoveAt(tasks, i)
    /\ out' = EmptyOut("saveStat")
    /\ UNCHANGED statFrame

deliver(s, m) ==
  IF m.ev = "serviceReset" THEN serviceReset(s)
  ELSE IF m.k.kind = "load" THEN loadChapterEnd(s, m.k)
  ELSE IF m.k.kind = "reload" /\ m.k.pc = "loadPlaylist" THEN reloadAfterLoad(s, m.k, TRUE)
  ELSE IF m.k.kind = "reload" /\ m.k.pc = "pause" THEN reloadAfterPause(s, m.k)
  ELSE IF m.k.kind = "play" /\ m.k.pc = "getState" THEN playAfterGetState(s, m.k, m)
  ELSE IF m.k.kind = "play" /\ m.k.pc = "play" THEN finish(s, m.k)
  ELSE IF m.k.kind = "foreground" /\ m.k.pc = "getState"
    THEN foregroundAfterGetState(s, m.k, m)
  ELSE s

\* the oldest reply or event of the plugin reaches the JavaScript side
Deliver ==
  /\ inbox # << >>
  /\ \E s \in {deliver(BeginFor(Head(inbox).ev, Head(inbox).k), Head(inbox))} : Apply(s)
  /\ inbox' = Tail(inbox)
  /\ UNCHANGED << isNative, stat, now, backendVars, reordered, polls >>

\* ------------------------------------------------- the MediaControl plugin
Reply(c, playing, dur) ==
  IF c.k.kind = "none" THEN << >>
  ELSE << [ev |-> "reply", playing |-> playing, dur |-> dur, k |-> c.k] >>

ResetEvent == [ev |-> "serviceReset", playing |-> FALSE, dur |-> 0, k |-> NoTask]

\* the plugin executes the oldest posted call on the main handler
PluginExec ==
  /\ bridge # << >>
  /\ LET c == Head(bridge) IN
     /\ bridge' = Tail(bridge)
     /\ IF c.cmd = "loadPlaylist"
          THEN /\ svcAlive' = TRUE
               /\ bIds' = c.a.ids /\ bDur' = 0 /\ bPlaying' = TRUE
               /\ inbox' = inbox \o Reply(c, FALSE, 0)
        ELSE IF c.cmd = "play"
          THEN /\ svcAlive' = TRUE
               /\ bPlaying' = svcAlive
               /\ UNCHANGED << bIds, bDur >>
               /\ inbox' = inbox \o (IF svcAlive THEN << >> ELSE << ResetEvent >>)
                                 \o Reply(c, FALSE, 0)
        ELSE IF c.cmd = "pause"
          THEN /\ bPlaying' = FALSE
               /\ UNCHANGED << svcAlive, bIds, bDur >>
               /\ inbox' = inbox \o Reply(c, FALSE, 0)
        ELSE IF c.cmd = "getState"
          THEN /\ UNCHANGED backendVars
               /\ inbox' = inbox \o Reply(c, svcAlive /\ bPlaying /\ bDur > 0,
                                          IF svcAlive THEN bDur ELSE 0)
        ELSE IF c.cmd = "stopService"
          THEN /\ svcAlive' = FALSE /\ bIds' = << >> /\ bDur' = 0 /\ bPlaying' = FALSE
               /\ inbox' = inbox
        ELSE /\ UNCHANGED backendVars
             /\ inbox' = inbox
     /\ Len(inbox') <= MaxInbox
  /\ out' = EmptyOut("plugin")
  /\ UNCHANGED << isNative, bookId, chapterId, chapterIndex, totalChapters,
                  chapterIds, speed, sleepTimerEnd, skipSettings,
                  skipOutroTriggered, onChapterEnd, nativePosition,
                  nativeDuration, nativePlaying, lastStatUpdate, sleepTimeout,
                  audio, objectUrl, urls, progress, stat, now, timers, tasks,
                  hist, outroCalls, reordered, listeners, lastReload, polls >>

otherVars ==
  << isNative, bookId, chapterId, chapterIndex, totalChapters, chapterIds,
     speed, sleepTimerEnd, skipSettings, skipOutroTriggered, onChapterEnd,
     nativePosition, nativeDuration, nativePlaying, lastStatUpdate,
     sleepTimeout, audio, objectUrl, urls, progress, stat, now, timers,
     tasks, bridge, inbox, hist, outroCalls, reordered, listeners, lastReload, polls >>

\* the player finishes preparing the playlist: the duration becomes known
Prepared ==
  /\ svcAlive /\ bIds # << >> /\ bDur = 0
  /\ bDur' = ChapDur
  /\ out' = EmptyOut("prepared")
  /\ UNCHANGED << svcAlive, bPlaying, bIds >>
  /\ UNCHANGED otherVars

\* the system kills the playback service
ServiceKilled ==
  /\ svcAlive
  /\ svcAlive' = FALSE /\ bIds' = << >> /\ bDur' = 0 /\ bPlaying' = FALSE
  /\ out' = EmptyOut("killed")
  /\ UNCHANGED otherVars

\* reorderChapters(bookId, chapters) has saved the chapters of b1 with their
\* `order` fields swapped (or swapped back)
ReorderChapters ==
  /\ reordered' = ~reordered
  /\ out' = EmptyOut("reorderChapters")
  /\ UNCHANGED << isNative, bookId, chapterId, chapterIndex, totalChapters,
                  chapterIds, speed, sleepTimerEnd, skipSettings,
                  skipOutroTriggered, onChapterEnd, nativePosition,
                  nativeDuration, nativePlaying, lastStatUpdate, sleepTimeout,
                  audio, objectUrl, urls, progress, stat, now, timers, tasks,
                  bridge, inbox, backendVars, hist, outroCalls, listeners, polls >>
  /\ lastReload' = NoCmdArgs

\* ------------------------------------------------------------ the clock
\* Time passes: a step of `ds`, while the clock is at most `max` past the
\* start, or past the long sleep of ClockJump.
clockFrame ==
  << isNative, bookId, chapterId, chapterIndex, totalChapters, chapterIds,
     speed, sleepTimerEnd, skipSettings, skipOutroTriggered, onChapterEnd,
     nativePosition, nativeDuration, nativePlaying, lastStatUpdate,
     sleepTimeout, audio, objectUrl, urls, progress, stat, timers, tasks,
     bridge, inbox, backendVars, hist, outroCalls, reordered, listeners, lastReload, polls >>

Epoch == IF now >= MaxElapsed THEN MaxElapsed ELSE 0

TickBy(ds, max) ==
  \E d \in ds :
    /\ now - Epoch + d <= max
    /\ now' = now + d
    /\ out' = EmptyOut("tick")
    /\ UNCHANGED clockFrame

\* the device sleeps for 300 minutes, once
ClockJump ==
  /\ now < MaxElapsed
  /\ now' = now + MaxElapsed
  /\ out' = EmptyOut("tick")
  /\ UNCHANGED clockFrame

\* no engine command is in flight
Quiet == tasks = << >> /\ bridge = << >> /\ inbox = << >>

Next ==
  \/ SetOnChapterEnd
  \/ LoadChapter
  \/ Play
  \/ Pause
  \/ Seek
  \/ SeekRelative
  \/ SetSpeed
  \/ SetSkipSettings
  \/ Stop
  \/ PlayingChanged
  \/ PositionUpdate
  \/ ChapterChanged
  \/ Completed
  \/ PlayerError
  \/ LoadedMetadata
  \/ TimeUpdate
  \/ Ended
  \/ AwaitResolved
  \/ Deliver
  \/ PluginExec
  \/ Prepared
  \/ ServiceKilled
  \/ TogglePlay
  \/ SetSleepTimer
  \/ SleepTimeoutFired
  \/ PersistProgress
  \/ GetStat
  \/ SaveStat
  \/ TickBy(StatTicks \cup SleepTicks, MaxSleepClock)
  \/ ReorderChapters
  \/ AppStateChange
  \/ SetOnChapterEndAgain
  \/ ClockJump
  \/ Subscribe
  \/ Unsubscribe

Spec == Init /\ [][Next]_vars

\* ------------------------------------------------------ specifications
\* Spec is the engine with every command and event; the specifications
\* after it keep the same actions and restrict which of them occur, so that
\* each can be explored exhaustively.

\* recovery of a killed playback service (native backend)
InitNative == Init /\ isNative

NextRecovery ==
  \/ Quiet /\ LoadChapter
  \/ PositionUpdate
  \/ Quiet /\ Play
  \/ AwaitResolved
  \/ Deliver
  \/ PluginExec
  \/ Prepared
  \/ ServiceKilled

SpecRecovery == InitNative /\ [][NextRecovery]_vars

\* intro-skip and the engine-held speed across loads, on both backends
NextIntro ==
  \/ Quiet /\ SetSkipSettingsFrom(BOOLEAN, IntroVals, {DefaultSkipSettings.outroSeconds})
  \/ SetSpeed
  \/ Quiet /\ LoadChapterFrom(Books, 0 .. ChapDur, {"none"})
  \/ AwaitResolved
  \/ Deliver
  \/ PluginExec

SpecIntro == Init /\ [][NextIntro]_vars

\* outro-skip, on both backends
NextOutro ==
  \/ SetOnChapterEnd
  \/ Quiet /\ SetSkipSettingsFrom(BOOLEAN, {DefaultSkipSettings.introSeconds}, OutroVals)
  \/ Quiet /\ LoadChapterFrom({"b1"}, {0}, {"none"})
  \/ PositionUpdate
  \/ LoadedMetadata
  \/ TimeUpdate
  \/ AwaitResolved
  \/ Deliver
  \/ PluginExec
  \/ Prepared

SpecOutro == Init /\ [][NextOutro]_vars

\* chapter transitions reported by the native player
NextEvents ==
  \/ Quiet /\ LoadChapterFrom({"b1"}, {0, 1}, {"none"})
  \/ PositionUpdate
  \/ ChapterChanged
  \/ AwaitResolved
  \/ Deliver
  \/ PluginExec
  \/ Prepared

SpecEvents == InitNative /\ [][NextEvents]_vars

\* seeking, on both backends
NextSeek ==
  \/ Quiet /\ LoadChapterFrom({"b1"}, {0}, {"none"})
  \/ Quiet /\ Seek
  \/ Quiet /\ SeekRelative
  \/ PositionUpdate
  \/ LoadedMetadata
  \/ TimeUpdate
  \/ AwaitResolved
  \/ Deliver
  \/ PluginExec
  \/ Prepared

SpecSeek == Init /\ [][NextSeek]_vars

\* listening-time accounting on the playback heartbeat, on both backends
NextStats ==
  \/ Quiet /\ LoadChapterFrom({"b1"}, {0}, {"none"})
  \/ PositionUpdateAt({1})
  \/ LoadedMetadata
  \/ TimeUpdateAt({1})
  \/ AwaitResolved
  \/ Deliver
  \/ PluginExec
  \/ GetStat
  \/ SaveStat
  \/ TickBy(StatTicks, MaxStatClock)
  \/ ClockJump

SpecStats == Init /\ [][NextStats]_vars

\* the sleep timer, on both backends
NextSleep ==
  \/ SetSleepTimer
  \/ SleepTimeoutFired
  \/ Stop
  \/ PluginExec
  \/ GetStat
  \/ SaveStat
  \/ TickBy(SleepTicks, MaxSleepClock)

SpecSleep == Init /\ [][NextSleep]_vars

\* loads of every book, chapters without a local path or audio included,
\* with the backend's events arriving between the loads
NextAbandon ==
  \/ Quiet /\ LoadChapterFollowed(Books, {0})
  \/ Quiet /\ PositionUpdate
  \/ ChapterChanged
  \/ LoadedMetadata
  \/ TimeUpdate
  \/ AwaitResolved
  \/ Deliver
  \/ PluginExec
  \/ Prepared

SpecAbandon == Init /\ [][NextAbandon]_vars

\* recovery of a killed playback service, with the player's playing state
\* reported to the engine
NextSilent ==
  \/ Quiet /\ LoadChapterFrom({"b1"}, {0}, {"none"})
  \/ PlayingChanged
  \/ Quiet /\ Play
  \/ AwaitResolved
  \/ Deliver
  \/ PluginExec
  \/ Prepared
  \/ ServiceKilled

SpecSilent == InitNative /\ [][NextSilent]_vars

\* stop and pause, with a sleep timer, on both backends
NextStop ==
  \/ Quiet /\ LoadChapterFrom({"b1"}, {0}, {"none"})
  \/ Quiet /\ PositionUpdateAt({1})
  \/ LoadedMetadata
  \/ Quiet /\ TimeUpdateAt({1})
  \/ Quiet /\ SetSleepTimer
  \/ SleepTimeoutFired
  \/ Stop
  \/ AwaitResolved
  \/ Deliver
  \/ PluginExec
  \/ GetStat
  \/ SaveStat
  \/ Quiet /\ TickBy(SleepTicks, MaxSleepClock)

SpecStop == Init /\ [][NextStop]_vars

\* pause and stop while a chapter plays, with the backend's reports of it
NextPause ==
  \/ Quiet /\ LoadChapterFrom({"b1"}, {0}, {"none"})
  \/ Quiet /\ PositionUpdateAt({1})
  \/ LoadedMetadata
  \/ Quiet /\ TimeUpdateAt({1})
  \/ Quiet /\ Play
  \/ Quiet /\ Pause
  \/ Quiet /\ Stop
  \/ PlayingChanged
  \/ Prepared
  \/ AwaitResolved
  \/ Deliver
  \/ PluginExec

SpecPause == Init /\ [][NextPause]_vars

\* recovery of the session after the chapters of the loaded book were put
\* in another order
NextReorder ==
  \/ Quiet /\ LoadChapterFrom({"b1"}, {0}, {"none"})
  \/ Quiet /\ ReorderChapters
  \/ Quiet /\ ChapterChanged
  \/ Quiet /\ Play
  \/ AwaitResolved
  \/ Deliver
  \/ PluginExec
  \/ Prepared
  \/ ServiceKilled

SpecReorder == InitNative /\ [][NextReorder]_vars

\* loads on the web backend, overlapping ones included, and stop
InitWeb == Init /\ ~isNative

NextUrls ==
  \/ Cardinality(urls) < MaxUrls /\ LoadChapterFrom({"b2", "b3"}, {0}, {"none"})
  \/ LoadedMetadata
  \/ Quiet /\ TimeUpdateAt({1})
  \/ Stop
  \/ AwaitResolved

SpecUrls == InitWeb /\ [][NextUrls]_vars

\* stop on the native backend, with the backend's events arriving before
\* and after its commands are executed
NextIdle ==
  \/ Quiet /\ LoadChapterFrom({"b1"}, {0}, {"none"})
  \/ Quiet /\ Play
  \/ Quiet /\ Stop
  \/ PositionUpdateAt({1})
  \/ ChapterChanged
  \/ PlayingChanged
  \/ AwaitResolved
  \/ Deliver
  \/ PluginExec
  \/ Prepared
  \/ ServiceKilled

SpecIdle == InitNative /\ [][NextIdle]_vars

\* errors of the native player while a chapter is loaded and playing
NextError ==
  \/ Quiet /\ LoadChapterFrom({"b1"}, {0}, {"none"})
  \/ Quiet /\ PositionUpdateAt({1})
  \/ Quiet /\ Play
  \/ PlayingChanged
  \/ PlayerError
  \/ AwaitResolved
  \/ Deliver
  \/ PluginExec
  \/ Prepared

SpecError == InitNative /\ [][NextError]_vars

\* the app comes back to the foreground, the playback service alive or not
NextForeground ==
  \/ Quiet /\ LoadChapterFrom({"b1"}, {0}, {"none"})
  \/ Quiet /\ PositionUpdateAt({1})
  \/ Quiet /\ AppStateChange
  \/ bridge = << >> /\ Stop
  \/ AwaitResolved
  \/ Deliver
  \/ PluginExec
  \/ Prepared
  \/ ServiceKilled

SpecForeground == InitNative /\ [][NextForeground]_vars

\* the media plays to its end, with a chapter-end function registered or not
NextEnd ==
  \/ SetOnChapterEnd
  \/ SetOnChapterEndAgain
  \/ Quiet /\ LoadChapterFrom({"b1"}, {0}, {"none"})
  \/ Quiet /\ Play
  \/ PlayingChanged
  \/ Completed
  \/ LoadedMetadata
  \/ Quiet /\ Ended
  \/ Quiet /\ Stop
  \/ AwaitResolved
  \/ Deliver
  \/ PluginExec
  \/ Prepared

SpecEnd == Init /\ [][NextEnd]_vars

C2_ResetThenPlayLoadsOnce ==
  (hist.active /\ hist.userPlay = "done") =>
    /\ hist.loads = 1
    /\ hist.loadIdx = hist.idx
    /\ hist.loadPos = hist.pos
    /\ hist.loadFirst

\* the position is inside the outro window of the settings in force
InOutroWindow ==
  LET info == getInfo(Cur) IN
  /\ skipSettings.enabled /\ skipSettings.outroSeconds > 0
  /\ info.duration > 0
  /\ info.duration - info.currentTime > 0
  /\ info.duration - info.currentTime <= skipSettings.outroSeconds

\* C3: since the last loadChapter, outro-skip has invoked the chapter-end
\* callback at most once, whatever position updates arrived, on either
\* backend; and no single update invokes it more than once.
C3_OutroSkipAtMostOnce == outroCalls <= 1 /\ out.outro <= 1

\* C3 witness: the callback has fired for this load, and a later position
\* update inside the outro window has been handled without invoking it.
C3_Witness ==
  /\ outroCalls = 1 /\ skipOutroTriggered /\ onChapterEnd # NoCallback
  /\ out.op \in {"positionUpdate", "timeupdate"}
  /\ InOutroWindow
  /\ out.cbs = 0

\* the start position loadChapter is to use, by the three cases of C4
C4_Expected(settings, startPosition, e) ==
  /\ (settings.enabled /\ settings.introSeconds > 0 /\ startPosition = 0)
       => e = settings.introSeconds
  /\ startPosition # 0 => e = startPosition
  /\ (~settings.enabled \/ settings.introSeconds = 0) => e = startPosition

\* C4: the position loadChapter gives to the backend, and the one the
\* snapshot shows at that moment, is introSeconds when skip is enabled,
\* introSeconds > 0 and startPosition = 0; it is startPosition for every
\* startPosition other than 0, and when skip is disabled or introSeconds = 0.
C4_IntroSkipOnlyOnFreshStart ==
  (out.loaded /\ out.load.by = "load") =>
    /\ C4_Expected(skipSettings, out.load.req, out.load.pos)
    /\ C4_Expected(skipSettings, out.load.req, out.load.cur)
    /\ out.notify /\ C4_Expected(skipSettings, out.load.req, out.info.currentTime)

\* C4 witness: a resume at a position other than 0 was submitted unchanged
\* while intro-skip was enabled with introSeconds > 0.
C4_Witness ==
  /\ out.loaded /\ out.load.by = "load"
  /\ skipSettings.enabled /\ skipSettings.introSeconds > 0
  /\ out.load.req > 0 /\ out.load.req # skipSettings.introSeconds
  /\ out.load.pos = out.load.req

\* C4 witness of the other case: a fresh start was moved to introSeconds.
C4_WitnessFresh ==
  /\ out.loaded /\ out.load.by = "load"
  /\ skipSettings.enabled /\ skipSettings.introSeconds > 0
  /\ out.load.req = 0 /\ out.load.pos = skipSettings.introSeconds

\* C8: the engine-held speed changes only in setSpeed; every part of
\* loadChapter leaves it alone, submits it to the backend with the load, and
\* reports it in the snapshot.
C8_SpeedSurvivesLoads ==
  [][ /\ (speed' # speed => out'.op = "setSpeed")
      /\ (out'.lc => speed' = speed)
      /\ (out'.loaded => out'.load.speed = speed')
      /\ ((out'.lc /\ out'.notify) => out'.info.speed = speed') ]_vars

\* C8 witness: after setSpeed(1.5), a load was submitted with speed 1.5 and
\* the snapshot shows 1.5.
C8_Witness ==
  /\ speed = 15 /\ out.loaded /\ out.load.by = "load"
  /\ out.load.speed = 15 /\ out.notify /\ out.info.speed = 15

\* C5: a chapterChanged event that carries the engine's current chapter id
\* changes no engine state (the reported position included), writes no
\* progress record, sends nothing to the backend and calls no observer.
C5_DuplicateChapterChangedIgnored ==
  [][ (out'.op = "chapterChanged" /\ out'.dup) =>
        /\ UNCHANGED << engineVars, audio, progress, tasks, bridge, timers >>
        /\ ~out'.notify /\ ~out'.persist ]_vars

\* C5 witness: a chapterChanged event with the current id has been handled
\* while the reported position was past 0, and the position is still there.
C5_Witness ==
  /\ out.op = "chapterChanged" /\ out.dup
  /\ nativePosition > 0
  /\ ~out.notify /\ ~out.persist

\* C10: after seek(t) or seekRelative(d) with the duration known, the
\* position given to the backend, the one in the snapshot and the one in the
\* progress record lie in [0, duration].
C10_SeekClamped ==
  (out.op = "seek" /\ out.sent /\ out.dur > 0) =>
    /\ out.seekTo \in 0 .. out.dur
    /\ out.notify /\ out.info.currentTime \in 0 .. out.dur
    /\ out.persist /\ progress[bookId].position \in 0 .. out.dur

\* C6: the stored minutes of the day never decrease, whatever heartbeats of
\* at most 300 minutes are accounted and however their reads and writes of
\* the day's record interleave.
C6_StatNeverDecreases == [][stat' >= stat]_vars

StatTasks(ts) == {i \in 1 .. Len(ts) : ts[i].kind = "stat"}

\* C7: a heartbeat is rejected as a jump only when more than 300 minutes
\* have passed since the last accounted instant; it then writes nothing to
\* the day's record and starts no write, and the last accounted instant
\* becomes now.
C7_JumpDiscardedTimestampAdvanced ==
  [][ out'.hb = "jump" =>
        /\ now - lastStatUpdate > MaxElapsed
        /\ stat' = stat
        /\ Cardinality(StatTasks(tasks')) = Cardinality(StatTasks(tasks))
        /\ lastStatUpdate' = now' ]_vars

\* C7 witness: with minutes already accumulated, a heartbeat has just been
\* rejected as a jump and the last accounted instant is now.
C7_Witness ==
  /\ out.hb = "jump" /\ out.el > MaxElapsed
  /\ stat > 0 /\ lastStatUpdate = now

\* C9: at most one sleep-timer pause is pending, and it is the one last
\* scheduled, due at the deadline the snapshot shows; with no deadline set
\* (never set, cancelled with null, fired, or stopped) none is pending, and
\* with a deadline set one is; a timer-driven pause that runs is always the
\* one last scheduled, at or after its deadline, and leaves none pending.
C9_OneSleepTimerPending ==
  /\ Cardinality(timers) <= 1
  /\ \A t \in timers : t.id = sleepTimeout /\ t.due = sleepTimerEnd
  /\ (sleepTimerEnd = NoTime) <=> (timers = {})
  /\ out.fired => (~out.stale /\ timers = {} /\ sleepTimerEnd = NoTime)
  /\ (out.op = "setSleepTimer" /\ sleepTimerEnd # NoTime) =>
       sleepTimerEnd \in {now + m * UnitsPerMinute : m \in SleepMinutes}

\* C9 witness: setSleepTimer(m2) was called while the pause of an earlier
\* setSleepTimer(m1) was pending; exactly the new one is pending now.
C9_Witness ==
  /\ out.op = "setSleepTimer" /\ out.cancelled
  /\ now > 0
  /\ timers = {[id |-> sleepTimeout, due |-> now + 2 * UnitsPerMinute]}

\* C11: when loadChapter on the native backend finds no chapter of the book
\* with a local file path, no load-playlist is sent and the identity,
\* position, duration and outro-trigger flag are what they were at the call.
C11_AbandonedLoadChangesNothing ==
  (isNative /\ out.abandoned) =>
    /\ ~out.loaded
    /\ Identity(Cur) = out.pre

\* C12: whenever a book is loaded, chapterIndex is the position of chapterId
\* in the engine's chapter-id list, and 0 <= chapterIndex < totalChapters.
C12_IndexMatchesChapterId ==
  bookId # NoId =>
    /\ chapterIndex = IndexOf(chapterIds, chapterId)
    /\ 0 <= chapterIndex /\ chapterIndex < totalChapters

\* a session reset has started the silent reconstruction and the user has
\* not called play() since
SilentlyReconstructing == hist.active /\ hist.userPlay = "no"

\* C13: from the start of a silent reconstruction until the user calls
\* play(), the backend is never playing and the snapshot never reports
\* state 'playing'.
C13_ReconstructionDoesNotPlay ==
  SilentlyReconstructing =>
    /\ ~BackendPlaying
    /\ getInfo(Cur).state # "playing"

\* C14: play() never gives a play command to a session that its getState
\* reply has just shown dead (not playing, zero duration).
C14_NoPlayOnDeadSession == out.sentPlay => out.live = "alive"

\* C14, the rest: the call of play() sends getState and nothing else; on the
\* reply, with a book loaded and the session shown dead it starts a reload
\* that will play and sends no command, otherwise it sends play and no
\* load-playlist; the reload submits the engine's chapter and position.
C14_PlayDecidesOnReply ==
  /\ (out.op = "play" /\ isNative) =>
       /\ ~out.sentPlay /\ ~out.loaded
       /\ bridge # << >> /\ bridge[Len(bridge)].cmd = "getState"
  /\ (out.live = "dead" /\ bookId # NoId /\ chapterId # NoId) =>
       /\ ~out.sentPlay /\ ~out.loaded
       /\ tasks # << >> /\ tasks[Len(tasks)].kind = "reload" /\ tasks[Len(tasks)].auto
  /\ (out.live = "alive" \/ (out.live = "dead" /\ bookId = NoId)) =>
       /\ out.sentPlay /\ ~out.loaded
  /\ (out.loaded /\ out.load.by = "reload") =>
       /\ out.load.pos = nativePosition
       /\ out.load.index = Max(IndexOf(out.load.ids, chapterId), 0)

\* C15: right after stop(), whatever the state it was called in, the backend
\* has been told to pause and to release what it holds (native: pause then
\* stopService are the last commands sent; web: the element is paused with no
\* source and no object URL is left), the snapshot given to observers is the
\* idle one with every field at its default, and no sleep-timer pause is
\* pending, so one scheduled before the stop cannot fire.
IdleInfo ==
  [NoInfo EXCEPT !.state = "idle", !.speed = speed, !.skipSettings = skipSettings]

C15_StopResetsToIdle ==
  out.op = "stop" =>
    /\ out.notify /\ out.info = IdleInfo
    /\ timers = {} /\ sleepTimeout = 0
    /\ IF isNative
         THEN /\ Len(bridge) >= 2
              /\ bridge[Len(bridge) - 1].cmd = "pause"
              /\ bridge[Len(bridge)].cmd = "stopService"
         ELSE audio.paused /\ audio.src = NoId /\ objectUrl = 0 /\ urls = {}

\* C15 witness: stop() was called with a chapter loaded and a sleep-timer
\* pause pending, which it cancelled.
C15_Witness ==
  /\ out.op = "stop" /\ out.cancelled
  /\ IF isNative THEN bIds # << >> ELSE out.persist

\* C16: stop() with a chapter loaded leaves a progress record for that book,
\* chapter and the position shown when it was called.
C16_StopPersistsPosition ==
  [][(out'.op = "stop" /\ bookId # NoId /\ chapterId # NoId) =>
       /\ progress'[bookId].chapterId = chapterId
       /\ progress'[bookId].position = getInfo(Cur).currentTime]_vars

\* C16: while no book is loaded no progress record is written, so what
\* stop() did not persist is not persisted by a later event either.
C16_IdlePersistsNothing ==
  [][(bookId = NoId /\ bookId' = NoId) => progress' = progress]_vars

\* C17: when a recovery reload has returned and the backend holds the
\* playlist it resubmitted, the engine's chapter-id list is that playlist,
\* totalChapters is its length and chapterIndex is the place of the engine's
\* chapter in it.
C17_ReloadRebuildsChapterList ==
  (out.reloaded /\ svcAlive) =>
    /\ chapterIds = bIds
    /\ totalChapters = Len(bIds)
    /\ chapterIndex = IndexOf(bIds, chapterId)

\* C18: on the web backend at most one object URL is unreleased at any
\* time, and it is the one the engine holds.
C18_AtMostOneObjectUrl ==
  ~isNative =>
    /\ Cardinality(urls) <= 1
    /\ urls \subseteq {objectUrl}

\* C19: while the snapshot state is idle (no book loaded) the chapter id is
\* absent too, and the chapter index and position are at their defaults,
\* whatever native events have arrived since stop().
C19_IdleHasNoIdentity ==
  getInfo(Cur).state = "idle" =>
    /\ bookId = NoId /\ chapterId = NoId
    /\ chapterIndex = 0
    /\ getInfo(Cur).currentTime = 0

\* C19: a step that starts and ends with no book loaded writes no progress
\* record and submits no load-playlist.
C19_IdlePersistsAndLoadsNothing ==
  [][(bookId = NoId /\ bookId' = NoId) =>
       (progress' = progress /\ ~out'.loaded /\ ~out'.persist)]_vars

\* C20: the playerError listener marks playback not-playing and notifies
\* observers (with state "paused" when a book is loaded); it changes neither
\* identity nor position, writes no progress record, starts no reload and
\* gives the backend no command.
C20_ErrorOnlyMarksNotPlaying ==
  [][ out'.op = "playerError" =>
        /\ ~nativePlaying' /\ out'.notify
        /\ (bookId # NoId => out'.info.state = "paused")
        /\ UNCHANGED << bookId, chapterId, chapterIndex, totalChapters, chapterIds,
                        nativePosition, nativeDuration, progress, tasks, bridge >>
        /\ ~out'.loaded /\ ~out'.sentPlay ]_vars

\* C20 witness: an error arrived while the engine had a chapter loaded and
\* playing at a position past 0; the snapshot now says paused.
C20_Witness ==
  /\ out.op = "playerError" /\ out.wasPlaying
  /\ bookId # NoId /\ nativePosition > 0
  /\ out.info.state = "paused"

C22_SeekPersistsTarget ==
  (out.op = "seek" /\ bookId # NoId /\ chapterId # NoId) =>
    /\ out.sent /\ out.persist
    /\ progress[bookId].chapterId = chapterId
    /\ progress[bookId].position = out.seekTo

\* C23: a heartbeat credits elapsed time to the day's total only when it
\* finds playback playing (the media element not paused, the native player
\* playing); one that arrives while paused or loading credits nothing.
ActuallyPlaying == IF isNative THEN BackendPlaying ELSE ~audio.paused

C23_CreditOnlyWhilePlaying ==
  [][out'.hb = "rmw" => ActuallyPlaying]_vars

\* C23, on the web backend alone
C23_CreditOnlyWhilePlayingWeb ==
  [][(~isNative /\ out'.hb = "rmw") => ~audio.paused]_vars

\* C24: the write that ends an accounted heartbeat, when no other heartbeat
\* is being accounted at the same time, raises the day's total by exactly the
\* elapsed time the heartbeat measured (the total is in tenths of a minute,
\* the elapsed time in twentieths).
C24_CreditIsExactlyElapsed ==
  [][ (out'.op = "saveStat" /\ Cardinality(StatTasks(tasks)) = 1) =>
        \A i \in StatTasks(tasks) : 2 * stat' = 2 * stat + tasks[i].val ]_vars

\* C24: a heartbeat at or below the granularity threshold changes neither
\* the total nor the last accounted instant, and starts no write.
C24_SmallHeartbeatIgnored ==
  [][ out'.hb = "small" =>
        /\ out'.el <= MinElapsed
        /\ stat' = stat /\ lastStatUpdate' = lastStatUpdate
        /\ Cardinality(StatTasks(tasks')) = Cardinality(StatTasks(tasks)) ]_vars

\* the engine state s with the backend reporting position p and duration d
AtPosition(s, p, d) ==
  [s EXCEPT !.nativePosition = p, !.nativeDuration = d,
            !.audio.cur = p, !.audio.dur = IF d <= 0 THEN NaNDur ELSE d]

\* outro-skip fires in the step from s to r
OutroFired(s, r) ==
  IF s.onChapterEnd # NoCallback THEN r.out.outro = s.out.outro + 1
  ELSE r.skipOutroTriggered /\ ~s.skipOutroTriggered

\* which updates of a sequence of reported positions fire outro-skip, with no
\* callback registered, from state s on
RECURSIVE OutroFirings(_, _, _)
OutroFirings(s, d, ps) ==
  IF ps = << >> THEN << >>
  ELSE LET s1 == AtPosition(s, Head(ps), d)
           r == checkOutroSkip(s1)
       IN << OutroFired(s1, r) >> \o OutroFirings(r, d, Tail(ps))

\* C25: in every reachable engine state, a position update fires outro-skip
\* exactly when skip is enabled, outroSeconds > 0, the duration is known and
\* positive, the remaining time is in (0, outroSeconds] and the flag has not
\* fired for this load. With outroSeconds 15 and duration 100, of the updates
\* at 80, 83, 86, 90, 95, 99 after a load only the one at 86 fires.
C25_OutroSkipExactlyInWindow ==
  /\ \A p \in 0 .. (ChapDur + 1), d \in {TimeUnset, 0, ChapDur} :
       LET s1 == AtPosition(Begin("probe"), p, d)
           r == checkOutroSkip(s1)
       IN OutroFired(s1, r) <=>
            /\ skipSettings.enabled /\ skipSettings.outroSeconds > 0
            /\ d > 0 /\ d - p > 0 /\ d - p <= skipSettings.outroSeconds
            /\ ~skipOutroTriggered
  /\ OutroFirings([Begin("probe") EXCEPT
                     !.onChapterEnd = NoCallback, !.skipOutroTriggered = FALSE,
                     !.skipSettings = [@ EXCEPT !.enabled = TRUE, !.outroSeconds = 15]],
                  100, << 80, 83, 86, 90, 95, 99 >>)
       = << FALSE, FALSE, TRUE, FALSE, FALSE, FALSE >>
  /\ (out.op \in {"positionUpdate", "timeupdate"} /\ out.outro > 0) =>
       (skipSettings.enabled /\ skipSettings.outroSeconds > 0)

\* C25 witness: after a load, an update outside the outro window has been
\* handled without firing, the flag still clear, with skip enabled.
C25_WitnessBefore ==
  /\ out.op \in {"positionUpdate", "timeupdate"} /\ out.outro = 0
  /\ skipSettings.enabled /\ skipSettings.outroSeconds > 0 /\ onChapterEnd # NoCallback
  /\ ~skipOutroTriggered /\ getInfo(Cur).duration = ChapDur
  /\ getInfo(Cur).currentTime = 0

\* C25 witness: a position update inside the window has fired outro-skip.
C25_Witness ==
  /\ out.op \in {"positionUpdate", "timeupdate"} /\ out.outro = 1
  /\ outroCalls = 1

\* C26: a chapterChanged event that carries another chapter id than the
\* engine's, while a book is loaded, is accepted: the engine takes the id and
\* index the backend reported (an entry of its playlist and that entry's
\* place), the reported position becomes 0, observers are given a snapshot
\* showing them, and the progress record of the same book now holds the new
\* chapter id at position 0.
C26_ChapterChangedAccepted ==
  [][ (out'.op = "chapterChanged" /\ ~out'.dup /\ bookId # NoId) =>
        /\ bookId' = bookId
        /\ chapterId' # chapterId
        /\ chapterIndex' + 1 \in 1 .. Len(bIds) /\ bIds[chapterIndex' + 1] = chapterId'
        /\ nativePosition' = 0
        /\ out'.notify
        /\ out'.info.chapterId = chapterId' /\ out'.info.chapterIndex = chapterIndex'
        /\ out'.info.currentTime = 0
        /\ out'.persist
        /\ progress'[bookId] = [chapterId |-> chapterId', position |-> 0,
                                speed |-> speed] ]_vars

\* C26 witness: with the first chapter at a reported position past 0 and a
\* progress record for it, the backend's move to the second chapter has been
\* accepted.
C26_Witness ==
  /\ out.op = "chapterChanged" /\ ~out.dup /\ out.persist
  /\ bookId = "b1" /\ chapterId = "a2" /\ chapterIndex = 1
  /\ chapterIds = << "a1", "a2" >> /\ bIds = << "a1", "a2" >>
  /\ progress["b1"].chapterId = "a2"

\* C27: a completed event (native) or an ended event (web) invokes the
\* chapter-end function once when one is registered, and it is the one
\* registered last; outro-skip is not involved; the completed event also
\* marks playback not-playing and notifies observers.
C27_CompletionCallsLatestCallbackOnce ==
  [][ out'.op \in {"completed", "ended"} =>
        /\ out'.cbs = (IF onChapterEnd # NoCallback THEN 1 ELSE 0)
        /\ out'.cb = onChapterEnd
        /\ out'.outro = 0
        /\ (out'.op = "completed" => (~nativePlaying' /\ out'.notify)) ]_vars

\* C27 witness: after two registrations the backend, which the engine had as
\* playing, reported completion; the second function was invoked, once.
C27_Witness ==
  /\ out.op = "completed" /\ out.wasPlaying
  /\ onChapterEnd = 2 /\ out.cb = 2 /\ out.cbs = 1
  /\ ~nativePlaying

\* C27 witness, web: the same at an ended event of the media element.
C27_WitnessWeb ==
  /\ out.op = "ended" /\ onChapterEnd = 2 /\ out.cb = 2 /\ out.cbs = 1

LoadTasks(ts) == {i \in 1 .. Len(ts) : ts[i].kind = "load"}

\* C28: when the chapter-end function is invoked with a book loaded at
\* chapterIndex i that is not the last of the engine's chapter-id list, it
\* calls loadChapter for that book, the id at index i + 1 of the list, the
\* same list and start position 0, to be followed by play(); at the last
\* index it starts no load and pauses the backend; with no book loaded it
\* changes nothing. A load it started is followed by play() when it returns.
C28_CallbackAdvancesOrStops ==
  [][ /\ (out'.cbs = 1 /\ bookId = NoId) =>
            UNCHANGED << bookId, chapterId, chapterIndex, chapterIds, totalChapters,
                         tasks, bridge, audio >>
      /\ (out'.cbs = 1 /\ bookId # NoId /\ chapterIndex + 1 < Len(chapterIds)) =>
            /\ bookId' = bookId /\ chapterIds' = chapterIds
            /\ chapterId' = chapterIds[chapterIndex + 2]
            /\ chapterIndex' = chapterIndex + 1
            /\ Len(tasks') = Len(tasks) + 1
            /\ LET t == tasks'[Len(tasks')] IN
                 /\ t.kind = "load" /\ t.book = bookId
                 /\ t.chap = chapterIds[chapterIndex + 2]
                 /\ t.val = 0 /\ t.ret = "play"
      /\ (out'.cbs = 1 /\ bookId # NoId /\ chapterIndex + 1 >= Len(chapterIds)) =>
            /\ UNCHANGED << bookId, chapterId, chapterIndex, chapterIds >>
            /\ LoadTasks(tasks') = LoadTasks(tasks) /\ ~out'.loaded
            /\ IF isNative
                 THEN bridge' = Append(bridge, [cmd |-> "pause", a |-> NoCmdArgs,
                                                k |-> NoTask])
                 ELSE audio'.paused
      /\ (inbox # << >> /\ inbox' = Tail(inbox) /\ Head(inbox).k.kind = "load"
            /\ Head(inbox).k.ret = "play") =>
            /\ Len(bridge') = Len(bridge) + 1
            /\ bridge'[Len(bridge')].cmd = "getState"
            /\ bridge'[Len(bridge')].k.kind = "play" ]_vars

\* C28 witness: the first chapter ended with the function registered; the
\* load of the second chapter it started has returned and play() has begun.
C28_Witness ==
  /\ out.lc /\ out.notify /\ out.op = "reply"
  /\ bookId = "b1" /\ chapterId = "a2" /\ chapterIndex = 1
  /\ onChapterEnd # NoCallback
  /\ bridge # << >> /\ bridge[Len(bridge)].cmd = "getState"

\* C28 witness: the last chapter ended and the function paused the backend.
C28_WitnessLast ==
  /\ out.cbs = 1 /\ out.op \in {"completed", "ended"}
  /\ bookId = "b1" /\ chapterIndex = 1 /\ ~out.lc

\* C28 witness: completion was reported after stop(), with no book loaded.
C28_WitnessIdle ==
  /\ out.cbs = 1 /\ out.op = "completed" /\ bookId = NoId

\* observers subscribing and unsubscribing while the engine is used
NextObservers ==
  \/ Quiet /\ Subscribe
  \/ Quiet /\ Unsubscribe
  \/ Quiet /\ LoadChapterFrom({"b1", "b3"}, {0}, {"none"})
  \/ Quiet /\ Pause
  \/ Quiet /\ SetSpeed
  \/ Quiet /\ Stop
  \/ LoadedMetadata
  \/ AwaitResolved
  \/ Deliver
  \/ PluginExec
  \/ Prepared

SpecObservers == Init /\ [][NextObservers]_vars

\* C29 (second part): a notification calls exactly the observers in the
\* listeners Set with the snapshot of that moment; an observer is in the
\* Set only after a subscribe of it, and after the function subscribe
\* returned has been called it is not called again until it subscribes
\* again, while the observers still subscribed are called.
C29_NotifyCallsTheSubscribed ==
  [][ /\ out'.notify =>
            /\ out'.called = Subscribed(listeners')
            /\ out'.info = getInfo(Cur')
            /\ \A fn \in Observers : listeners'[fn] = "unsubscribed" => fn \notin out'.called
      /\ ~out'.notify => out'.called = {}
      /\ \A fn \in Observers :
            /\ (listeners[fn] # "subscribed" /\ listeners'[fn] = "subscribed")
                  => out'.op = "subscribe"
            /\ (out'.op = "unsubscribe" /\ listeners'[fn] # listeners[fn])
                  => listeners'[fn] = "unsubscribed" ]_vars

\* C29 (first part): a step of the engine that changes the snapshot calls
\* the subscribed observers.
C29_EveryChangeNotifies ==
  [][ getInfo(Cur') # getInfo(Cur) => out'.notify ]_vars

\* C29 witness: one observer has unsubscribed, the other is still subscribed
\* and is the only one called by a notification that follows a change.
C29_Witness ==
  /\ out.notify /\ out.op = "setSpeed"
  /\ listeners[1] = "unsubscribed" /\ listeners[2] = "subscribed"
  /\ out.called = {2} /\ out.info.speed # DefaultSpeed

\* The sleep timer with time passing: the clock advances, a timeout whose
\* delay has elapsed is run, the plugin executes what it is sent and the
\* storage calls of the statistics complete.
\* setSleepTimer is called early enough for its deadline to lie within the
\* span of the clock that is explored.
NextSleepLive ==
  \/ now + 2 * UnitsPerMinute <= MaxSleepClock /\ SetSleepTimer
  \/ SleepTimeoutFired
  \/ Stop
  \/ PluginExec
  \/ GetStat
  \/ SaveStat
  \/ TickBy(SleepTicks, MaxSleepClock)

SpecSleepLive ==
  /\ Init /\ [][NextSleepLive]_vars
  /\ WF_vars(TickBy(SleepTicks, MaxSleepClock))
  /\ WF_vars(SleepTimeoutFired)
  /\ WF_vars(PluginExec)
  /\ WF_vars(GetStat)
  /\ WF_vars(SaveStat)

\* the times sleepTimerEnd can hold in SpecSleepLive: the clock moves by
\* SleepTicks, and setSleepTimer is called at one of its first three values
SleepDeadlines ==
  {n + m * UnitsPerMinute : n \in {0, 10, 20}, m \in SleepMinutes}

PauseCmd == [cmd |-> "pause", a |-> NoCmdArgs, k |-> NoTask]

\* C30: setSleepTimer(minutes) with minutes > 0 stores sleepTimerEnd = now +
\* minutes and leaves exactly one pause scheduled, for that time; the stored
\* time changes only by setSleepTimer, by stop or by the scheduled pause
\* running; the scheduled pause runs no earlier than the stored time, calls
\* pause() once and clears sleepTimerEnd; a stored time does not stay for
\* ever (so, unless replaced, cleared or stopped, the pause does run); and in
\* every state sleepTimerEnd is set exactly when a pause is scheduled.
C30_SleepTimerFires ==
  /\ []((sleepTimerEnd # NoTime) <=> (timers # {}))
  /\ [](sleepTimerEnd \in SleepDeadlines \cup {NoTime})
  /\ [][ /\ (out'.op = "setSleepTimer" /\ sleepTimerEnd' # NoTime) =>
              /\ \E m \in SleepMinutes : sleepTimerEnd' = now + m * UnitsPerMinute
              /\ timers' = {[id |-> sleepTimeout', due |-> sleepTimerEnd']}
         /\ (sleepTimerEnd # NoTime /\ sleepTimerEnd' # sleepTimerEnd) =>
              out'.op \in {"setSleepTimer", "stop", "sleepTimeout"}
         /\ out'.op = "sleepTimeout" =>
              /\ sleepTimerEnd # NoTime /\ now >= sleepTimerEnd
              /\ sleepTimerEnd' = NoTime /\ timers' = {} /\ sleepTimeout' = 0
              /\ out'.notify /\ out'.info.sleepTimerEnd = NoTime
              /\ IF isNative THEN bridge' = Append(bridge, PauseCmd)
                             ELSE audio'.paused ]_vars
  /\ \A d \in SleepDeadlines : (sleepTimerEnd = d) ~> (sleepTimerEnd # d)

\* C30 witness: the pause scheduled by setSleepTimer has run at its time and
\* cleared the stored time.
C30_Witness ==
  /\ out.op = "sleepTimeout" /\ out.fired /\ out.notify
  /\ now >= UnitsPerMinute
  /\ sleepTimerEnd = NoTime /\ timers = {}

\* C31: when _reloadNativePlaylist(false) runs again and nothing but silent
\* reconstructions and foreground checks has run since its last submission
\* (no backend event, no command of the app), it submits the same playlist,
\* start index, start position and speed as the last time; and the steps of
\* a reconstruction leave bookId, chapterId, chapterIndex, the reported
\* position and the speed as they were.
C31_ReloadIsIdempotent ==
  [][ /\ (out'.load.by = "reload" /\ out'.prev # NoCmdArgs) =>
            /\ out'.load.ids = out'.prev.ids
            /\ out'.load.index = out'.prev.index
            /\ out'.load.pos = out'.prev.pos
            /\ out'.load.speed = out'.prev.speed
            /\ lastReload' = out'.prev
      /\ lastReload' # NoCmdArgs =>
            UNCHANGED << bookId, chapterId, chapterIndex, nativePosition, speed >>
    ]_vars

\* C31 witness: a second reconstruction in a row has submitted its playlist,
\* with a position other than 0 reported when both ran.
C31_Witness ==
  /\ out.load.by = "reload" /\ out.prev # NoCmdArgs
  /\ out.prev.pos = 1 /\ nativePosition = 1
  /\ bookId = "b1"

\* loads issued while earlier loads are still suspended, on both backends
NextOverlap ==
  \/ Cardinality(urls) < MaxUrls /\ LoadChapterFrom({"b1", "b2"}, {0}, {"none"})
  \/ AwaitResolved
  \/ Deliver
  \/ PluginExec
  \/ Prepared
  \/ LoadedMetadata

SpecOverlap == Init /\ [][NextOverlap]_vars

\* no loadChapter is suspended, on storage or on the backend
NoLoadInFlight ==
  /\ LoadTasks(tasks) = {}
  /\ \A i \in 1 .. Len(bridge) : bridge[i].k.kind # "load"
  /\ \A i \in 1 .. Len(inbox) : inbox[i].k.kind # "load"

\* C32: when a loadChapter returns normally and no other is still suspended,
\* the chapter the backend was last given is the engine's chapterId (web: the
\* source of the media element; native: the entry at the start index of the
\* last playlist submitted, which is also chapterIndex, for a chapter that
\* is in the playlist), whichever way the calls overlapped.
C32_OverlappingLoadsSettle ==
  /\ (~isNative /\ out.lc /\ out.notify /\ NoLoadInFlight) => audio.src = chapterId
  /\ (isNative /\ out.loaded /\ out.load.by = "load"
        /\ IndexOf(out.load.ids, chapterId) >= 0
        /\ \A i \in LoadTasks(tasks) : tasks[i].pc # "db") =>
       /\ out.load.ids[out.load.index + 1] = chapterId
       /\ out.load.index = chapterIndex

\* a loadChapter started by the chapter-end function has not returned yet
AdvanceInFlight ==
  \/ \E i \in 1 .. Len(tasks) : tasks[i].kind = "load" /\ tasks[i].ret = "play"
  \/ \E i \in 1 .. Len(bridge) : bridge[i].k.kind = "load" /\ bridge[i].k.ret = "play"
  \/ \E i \in 1 .. Len(inbox) : inbox[i].k.kind = "load" /\ inbox[i].k.ret = "play"

\* C33: while the load of the next chapter started by the chapter-end
\* function has not completed, a position update does not call the
\* chapter-end function again.
C33_OneAdvancePerChapterEnd ==
  [][ (out'.op = "positionUpdate" /\ AdvanceInFlight) => out'.cbs = 0 ]_vars

\* C34: every progress record stored for a book names a chapter of that
\* book, also when events of the playlist loaded before reach the engine
\* after loadChapter has moved it to another book.
C34_ProgressNamesChapterOfBook ==
  \A b \in Books :
    progress[b].chapterId # NoId => progress[b].chapterId \in ChapterIdsOf(b)

\* A session reset with a book loaded, then one play() of the user, called at
\* any moment after the reset event; from the reset on the service stays up,
\* storage reads return, the plugin executes every call, its replies are
\* delivered and the player prepares what it is given.
NextReplay ==
  \/ ~hist.active /\ Quiet /\ LoadChapterFrom({"b1"}, {0}, {"none"})
  \/ ~hist.active /\ Quiet /\ Play
  \/ hist.active /\ hist.userPlay = "no" /\ Play
  \/ ~hist.active /\ ServiceKilled
  \/ AwaitResolved
  \/ Deliver
  \/ PluginExec
  \/ Prepared

SpecReplay ==
  /\ InitNative /\ [][NextReplay]_vars
  /\ WF_vars(AwaitResolved)
  /\ WF_vars(Deliver)
  /\ WF_vars(PluginExec)
  /\ WF_vars(Prepared)

\* C35: once the user has called play() after a session reset with a book
\* loaded, the engine comes to rest with the player playing the engine's
\* chapter.
C35_PlayAfterResetPlays ==
  (hist.active /\ hist.userPlay # "no")
    ~> (Quiet /\ tasks = << >> /\ BackendPlaying /\ chapterId \in ChapterIdsOf(bookId)
          /\ IndexOf(bIds, chapterId) >= 0)

\* ------------------------------------------------ resuming a book (C36)
\* Progress records left in storage by earlier sessions: none, or a record
\* of a chapter at its start or part way in, saved at the other speed.  A
\* record may name a chapter of another book (the record b1 gets when a
\* chapterChanged of b2's playlist is delivered after b1 was loaded).
SavedRecords ==
  {NoProgress} \cup
  {[chapterId |-> c, position |-> p, speed |-> 15] : c \in {"a2", "x2"}, p \in {0, 2}}

\* playBook(bookId) or playBook(bookId, chapterId) with a chapter of the book
PlayBook ==
  \E b \in Books \cup {EmptyBook} :
    \E c \in {NoId} \cup ChapterIdsOf(b) :
      JsStep(playBook(Begin("playBook"),
                      [NoTask EXCEPT !.kind = "playBook", !.pc = "call",
                                     !.book = b, !.chap = c]))

InitResume ==
  InitOver({f \in [Books -> SavedRecords] :
              f["b3"] = NoProgress /\ f["b2"].position = 0})

NextResume ==
  \/ Quiet /\ PlayBook
  \/ bookId = NoId /\ Quiet /\ SetSkipSettingsFrom({TRUE}, {0}, {2})
  \/ AwaitResolved
  \/ Deliver
  \/ PluginExec
  \/ Prepared
  \/ LoadedMetadata

SpecResume == InitResume /\ [][NextResume]_vars

\* the chapter ids playBook found for the book of its run
PbIds == AllIds(out.pb.book)

\* C36: playBook without a chapter loads the saved chapter at exactly the
\* saved position and restores the saved speed; with a chapter it loads that
\* chapter with start position 0; with a saved chapter that is not among the
\* book's chapters it loads the first chapter at position 0; for a book with
\* no chapters it loads nothing and issues no play
C36_PlayBookResumes ==
  out.pb.book # NoId =>
    /\ out.pb.n = 0 => ~out.pb.called /\ ~out.lc /\ tasks = << >>
    /\ out.pb.n > 0 => out.pb.called
    /\ (out.pb.n > 0 /\ out.pb.explicit # NoId) =>
          out.pb.chap = out.pb.explicit /\ out.pb.req = 0
    /\ (out.pb.n > 0 /\ out.pb.explicit = NoId /\ out.pb.saved # NoProgress) =>
          IF IndexOf(PbIds, out.pb.saved.chapterId) >= 0
            THEN /\ out.pb.chap = out.pb.saved.chapterId
                 /\ out.pb.pos = out.pb.saved.position
                 /\ out.pb.speed = out.pb.saved.speed
            ELSE out.pb.chap = PbIds[1] /\ out.pb.req = 0

\* the same, with the start position read as the argument of loadChapter
C36_PlayBookResumesAsAsked ==
  out.pb.book # NoId =>
    /\ out.pb.n = 0 => ~out.pb.called /\ ~out.lc /\ tasks = << >>
    /\ out.pb.n > 0 => out.pb.called
    /\ (out.pb.n > 0 /\ out.pb.explicit # NoId) =>
          out.pb.chap = out.pb.explicit /\ out.pb.req = 0
    /\ (out.pb.n > 0 /\ out.pb.explicit = NoId /\ out.pb.saved # NoProgress) =>
          IF IndexOf(PbIds, out.pb.saved.chapterId) >= 0
            THEN /\ out.pb.chap = out.pb.saved.chapterId
                 /\ out.pb.req = out.pb.saved.position
                 /\ out.pb.speed = out.pb.saved.speed
            ELSE out.pb.chap = PbIds[1] /\ out.pb.req = 0

\* ------------------------------------- previous and next chapter (C37)
NextChapter == JsStep(nextChapter(Begin("nextChapter")))

PrevChapter == JsStep(prevChapter(Begin("prevChapter")))

NextNav ==
  \/ bookId = NoId /\ LoadChapterFrom({"b1", "b2"}, {0, 2}, {"none"})
  \/ tasks = << >> /\ bridge = << >> /\ NextChapter
  \/ tasks = << >> /\ bridge = << >> /\ PrevChapter
  \/ AwaitResolved
  \/ Deliver
  \/ PluginExec
  \/ Prepared
  \/ LoadedMetadata

SpecNav == Init /\ [][NextNav]_vars

\* the position the snapshot reports
PositionNow == IF isNative THEN nativePosition ELSE audio.cur

\* the load the last call has started: of chapter `c`, from position 0,
\* followed by play()
StartsLoadOf(c) ==
  /\ out.lc /\ chapterId = c /\ tasks # << >>
  /\ LET t == tasks[Len(tasks)]
     IN t.kind = "load" /\ t.chap = c /\ t.val = 0 /\ t.ret = "play"

\* the last call has left the chapter and the position alone
DoesNothing ==
  /\ ~out.lc /\ ~out.sent /\ ~out.notify /\ ~out.persist
  /\ chapterId = out.was.chapterId /\ chapterIndex = out.was.chapterIndex
  /\ PositionNow = out.was.currentTime

\* C37: with a book loaded, prevChapter past the restart threshold seeks to 0
\* in the current chapter and loads nothing, otherwise loads the chapter
\* before the current one at 0 and plays, or does nothing at the first
\* chapter; nextChapter loads the chapter after the current one and plays,
\* or does nothing at the last; neither moves chapterIndex out of
\* [0, totalChapters - 1]
C37_PrevNextStayInBook ==
  (out.nav # "none" /\ out.was.bookId # NoId) =>
    LET i == out.was.chapterIndex
        n == out.was.totalChapters
    IN /\ (out.nav = "prev" /\ out.was.currentTime > RestartAfter) =>
             /\ PositionNow = 0 /\ ~out.lc
             /\ chapterId = out.was.chapterId /\ chapterIndex = i
       /\ (out.nav = "prev" /\ out.was.currentTime <= RestartAfter /\ i > 0) =>
             chapterIndex = i - 1 /\ StartsLoadOf(chapterIds[i])
       /\ (out.nav = "prev" /\ out.was.currentTime <= RestartAfter /\ i = 0) =>
             DoesNothing
       /\ (out.nav = "next" /\ i + 1 < n) =>
             chapterIndex = i + 1 /\ StartsLoadOf(chapterIds[i + 2])
       /\ (out.nav = "next" /\ i = n - 1) => DoesNothing
       /\ (0 <= i /\ i <= n - 1) => (0 <= chapterIndex /\ chapterIndex <= totalChapters - 1)

\* the same for the calls made while the backend can seek: on the native
\* backend, or on the web backend once the duration is known
C37_PrevNextWhenSeekable ==
  (isNative \/ audio.dur # NaNDur) => C37_PrevNextStayInBook

\* ------------------------------------- ensureService's polling (C38)
\* attempts[0]++ < 30
PollRetries == 30

\* loadPlaylist and play hand their work to ensureService
NeedsService(c) == c.cmd \in {"loadPlaylist", "play"}

pollFrame ==
  << isNative, bookId, chapterId, chapterIndex, totalChapters, chapterIds,
     speed, sleepTimerEnd, skipSettings, skipOutroTriggered, onChapterEnd,
     nativePosition, nativeDuration, nativePlaying, lastStatUpdate,
     sleepTimeout, audio, objectUrl, urls, progress, stat, now, timers,
     tasks, hist, outroCalls, reordered, listeners, lastReload >>

\* the plugin executes a call that finds the service running, or that does
\* not need it
PluginExecLive ==
  /\ bridge # << >>
  /\ svcAlive \/ ~NeedsService(Head(bridge))
  /\ PluginExec

\* loadPlaylist or play is called while the service is not running:
\* ensureService starts the service and posts the first check
EnsureService ==
  /\ bridge # << >> /\ ~svcAlive /\ NeedsService(Head(bridge))
  /\ Len(polls) < MaxPolls
  /\ bridge' = Tail(bridge)
  /\ polls' = Append(polls, [c |-> Head(bridge), attempts |-> 0])
  /\ out' = EmptyOut("plugin")
  /\ UNCHANGED << pollFrame, inbox, backendVars >>

\* a posted Runnable of ensureService runs: with the service up it runs
\* onReady, else it posts itself again unless it has done so 30 times
PollService ==
  \E i \in 1 .. Len(polls) :
    LET c == polls[i].c IN
    /\ polls[i].attempts <= PollRetries
    /\ IF svcAlive
         THEN /\ polls' = RemoveAt(polls, i)
              /\ IF c.cmd = "loadPlaylist"
                   THEN /\ bIds' = c.a.ids /\ bDur' = 0 /\ bPlaying' = TRUE
                        /\ inbox' = inbox \o Reply(c, FALSE, 0)
                   ELSE /\ UNCHANGED << bIds, bDur, bPlaying >>
                        /\ inbox' = inbox \o << ResetEvent >> \o Reply(c, FALSE, 0)
              /\ Len(inbox') <= MaxInbox
         ELSE /\ polls' = [polls EXCEPT ![i].attempts = @ + 1]
              /\ UNCHANGED << bIds, bDur, bPlaying, inbox >>
    /\ out' = EmptyOut("plugin")
    /\ UNCHANGED << pollFrame, bridge, svcAlive >>

\* the service that ensureService asked for is created
ServiceCreated ==
  /\ ~svcAlive /\ polls # << >>
  /\ svcAlive' = TRUE /\ bIds' = << >> /\ bDur' = 0 /\ bPlaying' = FALSE
  /\ out' = EmptyOut("created")
  /\ UNCHANGED << pollFrame, bridge, inbox, polls >>

NextBridge ==
  \/ bookId = NoId /\ Quiet /\ LoadChapterFrom({"b1"}, {0}, {"none"})
  \/ bookId # NoId /\ Quiet /\ polls = << >> /\ Play
  \/ polls = << >> /\ ServiceKilled
  \/ PluginExecLive
  \/ EnsureService
  \/ PollService
  \/ ServiceCreated
  \/ AwaitResolved
  \/ Deliver
  \/ Prepared

\* every step of the plugin, of the player and of the event loop is taken
\* in the end; nothing says the service is ever created
SpecBridge ==
  /\ InitNative /\ [][NextBridge]_vars
  /\ WF_vars(PluginExecLive) /\ WF_vars(EnsureService) /\ WF_vars(PollService)
  /\ WF_vars(AwaitResolved) /\ WF_vars(Deliver) /\ WF_vars(Prepared)

\* a load-playlist or play call is posted, held by ensureService, or its
\* reply is on its way
CallPending ==
  \/ \E i \in 1 .. Len(bridge) : NeedsService(bridge[i]) /\ bridge[i].k.kind # "none"
  \/ polls # << >>
  \/ \E i \in 1 .. Len(inbox) :
        inbox[i].ev = "reply" /\ inbox[i].k.pc \in {"loadPlaylist", "play"}

\* C38: every load-playlist and play call made over the bridge is resolved
\* or rejected in the end, also when the service does not come up within
\* the 30 retries of ensureService
C38_BridgeCallsSettle == CallPending ~> ~CallPending

\* the same as a property of states: no call is held by ensureService with
\* no check of the service left to run
C38_NoCallDropped ==
  \A i \in 1 .. Len(polls) : polls[i].attempts <= PollRetries
====
